---- MODULE Spec2Model ----
(***************************************************************************)
(* BibBuilder: the bibliography store (BetterBibDatabase), the identifier  *)
(* extraction of pdf2bib, the folder batch run and the merge script,       *)
(* modelled as state machines over one set of variables.                   *)
(*                                                                         *)
(* A record (an entry dict) is a TLA+ record with the fields ID,           *)
(* ENTRYTYPE, doi, file and title; a field the dict does not hold has the  *)
(* value Absent.  A text (the first page of a PDF) is a sequence of        *)
(* tokens; the regular expressions of all_doi_res are operators over such  *)
(* sequences.                                                              *)
(***************************************************************************)
EXTENDS Integers, Sequences, FiniteSets, TLC

VARIABLES
    entries,      \* BetterBibDatabase.entries: the store, a sequence of records
    prev,         \* summary of the operation before the last one
    last,         \* summary of the last operation on the store
    doc,          \* the document an import reads: [text, reg]
    result,       \* result of the last pure function applied (format_id)
    mg,           \* state of a run of the merge driver
    batch         \* state of a run of update_database_from_folder

vars == <<entries, prev, last, doc, result, mg, batch>>

(***************************************************************************)
(* Bounds of the model.                                                    *)
(***************************************************************************)
MaxEntries == 2      \* longest store the store operations build
MaxText == 4         \* longest page text, in tokens
MaxLoaded == 2       \* longest store a merge loads from a .bib file
MaxAux == 2          \* most auxiliary stores in one merge
MaxDocs == 3         \* most files in the folder of a batch run
MaxName == 3         \* longest journal name, in pieces
MaxPages == 4        \* longest pages field, in pieces
MaxKey == 4          \* longest raw key, in characters
MaxLines == 4        \* most lines of the HTML file

Absent == "<absent>"

Range(s) == {s[i] : i \in 1..Len(s)}

RECURSIVE Join(_)
Join(s) == IF s = <<>> THEN "" ELSE Head(s) \o Join(Tail(s))

RECURSIVE SeqsUpTo(_, _)
SeqsUpTo(S, n) ==
    IF n = 0 THEN {<<>>}
    ELSE LET shorter == SeqsUpTo(S, n - 1)
         IN  shorter \cup {Append(s, x) : s \in {t \in shorter : Len(t) = n - 1}, x \in S}

(***************************************************************************)
(* The store: properties of BetterBibDatabase.                             *)
(***************************************************************************)
\* [el['file'] for el in self.entries if 'file' in el]
files(es) ==
    LET withFile == SelectSeq(es, LAMBDA el : el.file # Absent)
    IN  [i \in 1..Len(withFile) |-> withFile[i].file]

\* [el['doi'] for el in self.entries if 'doi' in el]
dois(es) ==
    LET withDoi == SelectSeq(es, LAMBDA el : el.doi # Absent)
    IN  [i \in 1..Len(withDoi) |-> withDoi[i].doi]

\* [el['ID'] for el in self.entries]
ids(es) == [i \in 1..Len(es) |-> es[i].ID]

\* A mutant of entries_dict: the first entry of an ID wins and the last
\* entry of the store is left out.
RECURSIVE entries_dict_stale(_)
entries_dict_stale(es) ==
    IF Len(es) <= 1 THEN [k \in {} |-> Absent]
    ELSE LET n == Len(es) - 1
             d == entries_dict_stale(SubSeq(es, 1, n))
         IN  [k \in DOMAIN d \cup {es[n].ID} |-> IF k \in DOMAIN d THEN d[k] ELSE es[n]]

\* {entry['ID']: entry for entry in self.entries}: built entry by entry, a
\* later entry of the same ID overwriting the earlier one.
RECURSIVE entries_dict(_)
entries_dict(es) ==
    IF es = <<>> THEN [k \in {} |-> Absent]
    ELSE LET n == Len(es)
             d == entries_dict(SubSeq(es, 1, n - 1))
         IN  [k \in DOMAIN d \cup {es[n].ID} |-> IF k = es[n].ID THEN es[n] ELSE d[k]]

\* self[item] for a str item: self.entries_dict[item]; KeyError when absent.
HasKey(es, key) == key \in DOMAIN entries_dict(es)
GetItem(es, key) == entries_dict(es)[key]

\* _find_entry_index_by_key: the index of the first entry whose ID is key;
\* 0 stands for the KeyError.
_find_entry_index_by_key(es, key) ==
    IF \E i \in 1..Len(es) : es[i].ID = key
    THEN CHOOSE i \in 1..Len(es) : es[i].ID = key /\ \A j \in 1..(i - 1) : es[j].ID # key
    ELSE 0

\* _validate_new_entry: TRUE when no ValueError is raised.
_validate_new_entry(new_entry) ==
    new_entry.ID # Absent /\ new_entry.ENTRYTYPE # Absent

(***************************************************************************)
(* Page text and the regular expressions of all_doi_res.                   *)
(*                                                                         *)
(* A token is a piece of text the expressions cannot split: the DOI prefix *)
(* "10.1/" (what 10.[\d\.]+/ matches), the literals the lookarounds name,  *)
(* single characters.  The two journal headers end in a line break, so a   *)
(* run of [^\s] may enter a header but stops at the end of its first word. *)
(***************************************************************************)
DoiPrefix == "10.1/"
DoiColon == "doi:"
KeyPoint == "KeyPoint"
GRLHeader == "GeophysicalResearchLetters\nRESEARCHLETTER\n"
AGUHeader == "RESEARCHARTICLE\n"
CopyrightSign == "<U+00A9>"          \* one character with ord(char) > 127
Space == " "
Newline == "\n"

HeaderTokens == {GRLHeader, AGUHeader}
Tokens == {DoiPrefix, DoiColon, KeyPoint, GRLHeader, CopyrightSign, Space, "a", "."}

\* The part of a header before its first whitespace.
HeadOf(t) == IF t = GRLHeader THEN "GeophysicalResearchLetters" ELSE "RESEARCHARTICLE"

\* \s matches the first character of the token.
StartsWithSpace(t) == t \in {Space, Newline}
\* [^\s] matches every character of the token.
NonSpace(t) == t \notin ({Space, Newline} \cup HeaderTokens)

\* The last token of the longest run of [^\s] tokens that starts at p
\* (p - 1 when the token at p is not one).
RunEnd(text, p) ==
    CHOOSE e \in (p - 1)..Len(text) :
        /\ \A k \in p..e : NonSpace(text[k])
        /\ e = Len(text) \/ ~NonSpace(text[e + 1])

\* (?=(\.\s|,)) after token e
PunctAhead(text, e) ==
    /\ e + 1 <= Len(text)
    /\ \/ text[e + 1] = ","
       \/ text[e + 1] = "." /\ e + 2 <= Len(text) /\ StartsWithSpace(text[e + 2])

\* A mutant of KeyPointAhead: whitespace may stand before "KeyPoint"
KeyPointAheadOrBlank(text, e) ==
    /\ e + 1 <= Len(text)
    /\ \/ text[e + 1] = KeyPoint
       \/ text[e + 1] = Space /\ e + 2 <= Len(text) /\ text[e + 2] = KeyPoint

\* (?=KeyPoint) after token e
KeyPointAhead(text, e) == e + 1 <= Len(text) /\ text[e + 1] = KeyPoint

\* (?<=...) before token s; "" is no lookbehind
Behind(text, s, lit) == lit = "" \/ (s > 1 /\ text[s - 1] = lit)

\* all_doi_res: each expression is a lookbehind literal and the way the
\* suffix [^\s]+ ends: "greedy" ([^\s]+), "punct" ([^\s]+(?=(\.\s|,))) and
\* "lazy" ([^\s]+?(?=KeyPoint)).
all_doi_res ==
    << [behind |-> "",        suffix |-> "greedy"],
       [behind |-> "",        suffix |-> "punct"],
       [behind |-> DoiColon,  suffix |-> "greedy"],
       [behind |-> DoiColon,  suffix |-> "punct"],
       [behind |-> GRLHeader, suffix |-> "lazy"],
       [behind |-> AGUHeader, suffix |-> "lazy"] >>

\* The match of expression re that starts at token s: the matched pieces,
\* <<>> when re does not match there.
MatchAt(re, text, s) ==
    IF ~(text[s] = DoiPrefix /\ Behind(text, s, re.behind)) THEN <<>>
    ELSE LET e == RunEnd(text, s + 1)
         IN  CASE re.suffix = "greedy" ->
                    LET part == IF e < Len(text) /\ text[e + 1] \in HeaderTokens
                                THEN <<HeadOf(text[e + 1])>> ELSE <<>>
                        m == SubSeq(text, s, e) \o part
                    IN  IF Len(m) >= 2 THEN m ELSE <<>>
               [] re.suffix = "punct" ->
                    LET ends == {x \in (s + 1)..e : PunctAhead(text, x)}
                    IN  IF ends = {} THEN <<>>
                        ELSE SubSeq(text, s, CHOOSE x \in ends : \A y \in ends : y <= x)
               [] OTHER ->
                    LET ends == {x \in (s + 1)..e : KeyPointAhead(text, x)}
                    IN  IF ends = {} THEN <<>>
                        ELSE SubSeq(text, s, CHOOSE x \in ends : \A y \in ends : x <= y)

\* doi_re.search(pdf_text): the match at the leftmost start; <<>> is None.
search(re, text) ==
    LET starts == {s \in 1..Len(text) : MatchAt(re, text, s) # <<>>}
    IN  IF starts = {} THEN <<>>
        ELSE MatchAt(re, text, CHOOSE s \in starts : \A t \in starts : s <= t)

\* A mutant of ascii_prefix: the characters above 127 are dropped and the
\* text after them is kept.
RECURSIVE ascii_only(_)
ascii_only(m) ==
    IF m = <<>> THEN <<>>
    ELSE IF Head(m) = CopyrightSign THEN ascii_only(Tail(m))
    ELSE <<Head(m)>> \o ascii_only(Tail(m))

\* doi_string[:last_idx]: the pieces before the first one with ord(char) > 127.
RECURSIVE ascii_prefix(_)
ascii_prefix(m) ==
    IF m = <<>> \/ Head(m) = CopyrightSign THEN <<>>
    ELSE <<Head(m)>> \o ascii_prefix(Tail(m))

\* The identifier pdf2bib looks up for the match m.
doi_string(m) == Join(ascii_prefix(m))

(***************************************************************************)
(* The resolver (doi2bib.crossref.get_bib_from_doi) is outside the         *)
(* repository: a registry reg maps an identifier to "fail" (success is     *)
(* False), "empty" (success with an empty text) or "ok".  A bib string is  *)
(* <<>> (the empty string) or <<r>>, r the raw record the string holds.    *)
(***************************************************************************)
Outcomes == {"fail", "empty", "ok"}

RawRecord(doi) ==
    [ENTRYTYPE |-> "article",
     last |-> "Smith", first |-> <<"J", "o", "h", "n">>, year |-> <<"2", "0", "2", "0">>,
     doi |-> doi, title |-> "t"]

get_bib_from_doi(reg, doi) ==
    [success |-> reg[doi] # "fail",
     bib_string |-> IF reg[doi] = "ok" THEN <<RawRecord(doi)>> ELSE <<>>]

\* A mutant of pdf2bib_loop: the loop ends at the first match, whatever the
\* resolver answers.
RECURSIVE pdf2bib_loop_first_match(_, _, _, _, _)
pdf2bib_loop_first_match(k, text, reg, found_a_doi, calls) ==
    IF k > Len(all_doi_res) THEN [found_a_doi |-> found_a_doi, bib_string |-> <<>>, calls |-> calls]
    ELSE LET doi_match == search(all_doi_res[k], text)
         IN  IF doi_match = <<>>
             THEN pdf2bib_loop_first_match(k + 1, text, reg, found_a_doi, calls)
             ELSE LET d == doi_string(doi_match)
                      r == get_bib_from_doi(reg, d)
                  IN  [found_a_doi |-> TRUE,
                       bib_string |-> IF r.success THEN r.bib_string ELSE <<>>,
                       calls |-> Append(calls, [re |-> k, doi |-> d, success |-> r.success])]

\* The loop of pdf2bib from expression k on: found_a_doi, bib_string and
\* the resolver calls made, in order.
RECURSIVE pdf2bib_loop(_, _, _, _, _)
pdf2bib_loop(k, text, reg, found_a_doi, calls) ==
    IF k > Len(all_doi_res) THEN [found_a_doi |-> found_a_doi, bib_string |-> <<>>, calls |-> calls]
    ELSE LET doi_match == search(all_doi_res[k], text)
         IN  IF doi_match = <<>>
             THEN pdf2bib_loop(k + 1, text, reg, found_a_doi, calls)
             ELSE LET d == doi_string(doi_match)
                      r == get_bib_from_doi(reg, d)
                      called == Append(calls, [re |-> k, doi |-> d, success |-> r.success])
                  IN  IF r.success
                      THEN [found_a_doi |-> TRUE, bib_string |-> r.bib_string, calls |-> called]
                      ELSE pdf2bib_loop(k + 1, text, reg, TRUE, called)

\* pdf2bib(pdf_file): parse_ok is whether get_pdf_page_text returns the
\* text (it raises PdfParsingError otherwise).
pdf2bib(parse_ok, text, reg) ==
    IF ~parse_ok THEN [err |-> "PdfParsingError", bib_string |-> <<>>, calls |-> <<>>]
    ELSE LET l == pdf2bib_loop(1, text, reg, FALSE, <<>>)
         IN  [err |-> IF ~l.found_a_doi THEN "DoiNotFoundError"
                      ELSE IF Len(l.bib_string) = 0 THEN "BibRetrievalError"
                      ELSE "none",
              bib_string |-> l.bib_string,
              calls |-> l.calls]

\* The identifiers pdf2bib may look up for a text.
Candidates(text) ==
    {doi_string(search(all_doi_res[k], text)) :
        k \in {j \in 1..Len(all_doi_res) : search(all_doi_res[j], text) # <<>>}}

(***************************************************************************)
(* Key derivation and the import of a resolved record.                     *)
(***************************************************************************)
Alphabet ==
    << "A", "B", "C", "D", "E", "F", "G", "H", "I", "J", "K", "L", "M",
       "N", "O", "P", "Q", "R", "S", "T", "U", "V", "W", "X", "Y", "Z" >>

\* ord(c) - ord('A') + 1 for an uppercase letter c
LetterIndex(c) == CHOOSE i \in 1..Len(Alphabet) : Alphabet[i] = c

\* iter_letters(start, stop): chr(i) for i in range(ord(start), ord(stop) + 1)
iter_letters(start, stop) == SubSeq(Alphabet, LetterIndex(start), LetterIndex(stop))

\* The value format_id stands for when it raises RuntimeError.
KeySpaceExhausted == "<RuntimeError>"

\* '{}{}{}'.format(last[0], first[0][0], year[-2:]) of the first author; the
\* names of the model hold ASCII letters only, which the stripping of
\* accents, Latex commands and [^\w\-] leaves as they are.
record_id_of(record) ==
    LET y == record.year
    IN  record.last \o record.first[1] \o Join(SubSeq(y, IF Len(y) > 2 THEN Len(y) - 1 ELSE 1, Len(y)))

\* base with the first of the letters that gives a key not in taken; the
\* RuntimeError when every letter gives a taken key.
FirstFree(base, letters, taken) ==
    LET free == {i \in 1..Len(letters) : (base \o letters[i]) \notin taken}
    IN  IF free = {} THEN KeySpaceExhausted
        ELSE base \o letters[CHOOSE i \in free : \A j \in free : i <= j]

\* A mutant of unique_id: the suffix is tried once, the letter A only.
unique_id_only_A(record_id, all_ids) ==
    IF record_id \notin Range(all_ids) THEN record_id ELSE record_id \o "A"

\* format_id from "all_ids = self.ids" on: the base key when it is free,
\* else the base key with the first free letter, else the RuntimeError.
unique_id(record_id, all_ids) ==
    IF record_id \notin Range(all_ids) THEN record_id
    ELSE FirstFree(record_id, iter_letters("A", "Z"), Range(all_ids))

format_id(record, es) == unique_id(record_id_of(record), ids(es))

\* format_entry: the parsed record with its ID set by format_id.  The field
\* values of the model hold none of the HTML artefacts, double hyphens,
\* journal names or non-ASCII characters the other steps rewrite.
format_entry(record, es) ==
    [ID |-> format_id(record, es), ENTRYTYPE |-> record.ENTRYTYPE,
     doi |-> record.doi, file |-> Absent, title |-> record.title]

\* Number of entries of the store with the given file, with the given doi
CountFile(es, f) == Cardinality({i \in 1..Len(es) : es[i].file = f})
CountDoi(es, d) == Cardinality({i \in 1..Len(es) : es[i].doi = d})

\* The summary of an operation: what was called, the exception it raised
\* ("none": it returned) and whether the entry sequence changed.
NoOp ==
    [op |-> "init", err |-> "none", changed |-> FALSE, key |-> Absent,
     file |-> Absent, skip_file |-> FALSE, skip_doi |-> FALSE, doi |-> Absent,
     nFile |-> 0, nDoi |-> 0, calls |-> <<>>]

\* A mutant of add_entry_by_string: the file check is skipped.
add_entry_by_string_no_file_check(es, bib_string, file_name, skip_if_file_exists, skip_if_doi_exists) ==
    LET tmp == format_entry(bib_string[1], es)
    IN  IF tmp.ID = KeySpaceExhausted THEN [entries |-> es, err |-> "RuntimeError"]
        ELSE IF skip_if_doi_exists /\ tmp.doi # Absent /\ tmp.doi \in Range(dois(es))
        THEN [entries |-> es, err |-> "none"]
        ELSE [entries |-> Append(es, [tmp EXCEPT !.file = file_name]), err |-> "none"]

\* A mutant of add_entry_by_string: the doi check is skipped.
add_entry_by_string_no_doi_check(es, bib_string, file_name, skip_if_file_exists, skip_if_doi_exists) ==
    IF skip_if_file_exists /\ file_name # Absent /\ file_name \in Range(files(es))
    THEN [entries |-> es, err |-> "none"]
    ELSE LET tmp == format_entry(bib_string[1], es)
         IN  IF tmp.ID = KeySpaceExhausted THEN [entries |-> es, err |-> "RuntimeError"]
             ELSE [entries |-> Append(es, [tmp EXCEPT !.file = file_name]), err |-> "none"]

\* add_entry_by_string with the default parser: the entries afterwards and
\* the exception raised.  file_name = Absent is file_name=None.
add_entry_by_string(es, bib_string, file_name, skip_if_file_exists, skip_if_doi_exists) ==
    IF skip_if_file_exists /\ file_name # Absent /\ file_name \in Range(files(es))
    THEN [entries |-> es, err |-> "none"]
    ELSE LET tmp == format_entry(bib_string[1], es)
         IN  IF tmp.ID = KeySpaceExhausted THEN [entries |-> es, err |-> "RuntimeError"]
             ELSE IF skip_if_doi_exists /\ tmp.doi # Absent /\ tmp.doi \in Range(dois(es))
             THEN [entries |-> es, err |-> "none"]
             ELSE [entries |-> Append(es, [tmp EXCEPT !.file = file_name]), err |-> "none"]

\* A mutant of add_bib_string: the record is added although pdf2bib raised.
add_bib_string_ignoring_errors(es, pdf_file, p, skip_if_file_exists, skip_if_doi_exists) ==
    IF p.err # "none"
    THEN [entries |-> Append(es, [ID |-> "None", ENTRYTYPE |-> "article", doi |-> Absent,
                                  file |-> pdf_file, title |-> "t"]),
          err |-> p.err, calls |-> p.calls, doi |-> Absent]
    ELSE LET a == add_entry_by_string(es, p.bib_string, pdf_file,
                                      skip_if_file_exists, skip_if_doi_exists)
         IN  [entries |-> a.entries, err |-> a.err, calls |-> p.calls,
              doi |-> p.bib_string[1].doi]

\* add_entry_by_file once pdf2bib has ended as p: its exception leaves
\* add_entry_by_file, its bib string goes to add_entry_by_string with
\* file_name=pdf_file.  doi is the doi of the record the string holds.
add_bib_string(es, pdf_file, p, skip_if_file_exists, skip_if_doi_exists) ==
    IF p.err # "none"
    THEN [entries |-> es, err |-> p.err, calls |-> p.calls, doi |-> Absent]
    ELSE LET a == add_entry_by_string(es, p.bib_string, pdf_file,
                                      skip_if_file_exists, skip_if_doi_exists)
         IN  [entries |-> a.entries, err |-> a.err, calls |-> p.calls,
              doi |-> p.bib_string[1].doi]

\* add_entry_by_file: bib_string = pdf2bib(pdf_file), then add_entry_by_string
add_entry_by_file(es, pdf_file, parse_ok, text, reg, skip_if_file_exists, skip_if_doi_exists) ==
    CHOOSE r \in {add_bib_string(es, pdf_file, p, skip_if_file_exists, skip_if_doi_exists) :
                    p \in {pdf2bib(parse_ok, text, reg)}} : TRUE

\* A mutant of add_entry: the entry is appended without validation.
add_entry_unvalidated(es, new_entry) ==
    [entries |-> Append(es, new_entry), err |-> "none"]

\* add_entry
add_entry(es, new_entry) ==
    IF ~_validate_new_entry(new_entry) THEN [entries |-> es, err |-> "ValueError"]
    ELSE [entries |-> Append(es, new_entry), err |-> "none"]

\* replace_entry_by_key
replace_entry_by_key(es, key, new_entry) ==
    IF ~_validate_new_entry(new_entry) THEN [entries |-> es, err |-> "ValueError"]
    ELSE LET ind == _find_entry_index_by_key(es, key)
         IN  IF ind = 0 THEN [entries |-> es, err |-> "KeyError"]
             ELSE [entries |-> [es EXCEPT ![ind] = new_entry], err |-> "none"]

\* A mutant of remove_entry_by_key: a key that is not stored removes nothing
\* and raises nothing.
remove_entry_by_key_silent(es, key) ==
    LET ind == _find_entry_index_by_key(es, key)
    IN  IF ind = 0 THEN [entries |-> es, err |-> "none"]
        ELSE [entries |-> SubSeq(es, 1, ind - 1) \o SubSeq(es, ind + 1, Len(es)), err |-> "none"]

\* remove_entry_by_key
remove_entry_by_key(es, key) ==
    LET ind == _find_entry_index_by_key(es, key)
    IN  IF ind = 0 THEN [entries |-> es, err |-> "KeyError"]
        ELSE [entries |-> SubSeq(es, 1, ind - 1) \o SubSeq(es, ind + 1, Len(es)), err |-> "none"]

(***************************************************************************)
(* The merge script.  A run threads a record st through the keys:          *)
(*   base      the base store (base_bib_dat.entries)                       *)
(*   new       the auxiliary store being merged                            *)
(*   answers   what the user will still type, in order                     *)
(*   exit      0, or the code of the sys.exit that ended the run           *)
(*   conflicts how many times the conflict policy was invoked              *)
(*   seen      the <<store, key>> pairs handled, in order                  *)
(*   stuck     a prompt found no acceptable answer waiting                 *)
(***************************************************************************)
\* A mutant of _are_entries_equivalent: never equivalent.
_are_entries_never_equivalent(entry1, entry2) == FALSE

\* _are_entries_equivalent
_are_entries_equivalent(entry1, entry2) == entry1 = entry2

\* The keys of entries_dict in iteration order: each ID once, in the order
\* of its first entry.
RECURSIVE dict_keys(_)
dict_keys(es) ==
    IF es = <<>> THEN <<>>
    ELSE LET n == Len(es)
             ks == dict_keys(SubSeq(es, 1, n - 1))
         IN  IF es[n].ID \in Range(ks) THEN ks ELSE Append(ks, es[n].ID)

\* The entry sequence with the entry that es[key] returns given the ID new_key
\* (_change_entry_key sets entry['ID'] in place).
rename_in_place(es, key, new_key) ==
    LET ind == CHOOSE i \in 1..Len(es) :
                   es[i].ID = key /\ \A j \in (i + 1)..Len(es) : es[j].ID # key
    IN  [es EXCEPT ![ind].ID = new_key]

\* A mutant of _conflict_resolve_ask_user: the new key is tested against the
\* keys of the auxiliary store only.
_conflict_resolve_ask_user_tests_new_only(st, conflicting_key) ==
    IF st.answers = <<>> THEN [st EXCEPT !.stuck = TRUE]
    ELSE LET a == Head(st.answers)
             t == [st EXCEPT !.answers = Tail(st.answers)]
         IN  CASE a.choice = 0 -> t
               [] a.choice = 1 ->
                    [t EXCEPT !.base = replace_entry_by_key(st.base, conflicting_key,
                                           GetItem(st.new, conflicting_key)).entries]
               [] a.choice = 2 ->
                    IF a.key = Absent \/ a.key \in Range(ids(st.new))
                    THEN [st EXCEPT !.stuck = TRUE]
                    ELSE LET new_entry == [GetItem(st.new, conflicting_key) EXCEPT !.ID = a.key]
                         IN  [t EXCEPT !.new = rename_in_place(st.new, conflicting_key, a.key),
                                       !.base = add_entry(st.base, new_entry).entries]
               [] OTHER -> [t EXCEPT !.exit = 2]

\* _conflict_resolve_ask_user, the answer being a = [choice, key]
_conflict_resolve_ask_user(st, conflicting_key) ==
    IF st.answers = <<>> THEN [st EXCEPT !.stuck = TRUE]
    ELSE LET a == Head(st.answers)
             t == [st EXCEPT !.answers = Tail(st.answers)]
         IN  CASE a.choice = 0 -> t
               [] a.choice = 1 ->
                    [t EXCEPT !.base = replace_entry_by_key(st.base, conflicting_key,
                                           GetItem(st.new, conflicting_key)).entries]
               [] a.choice = 2 ->
                    IF a.key = Absent \/ a.key \in Range(ids(st.base) \o ids(st.new))
                    THEN [st EXCEPT !.stuck = TRUE]
                    ELSE LET new_entry == [GetItem(st.new, conflicting_key) EXCEPT !.ID = a.key]
                         IN  [t EXCEPT !.new = rename_in_place(st.new, conflicting_key, a.key),
                                       !.base = add_entry(st.base, new_entry).entries]
               [] OTHER -> [t EXCEPT !.exit = 2]

\* A mutant of resolve_conflict: the policy 'error' goes on like 'first'.
resolve_conflict_error_goes_on(st, conflict_behavior, key) ==
    LET t == [st EXCEPT !.conflicts = st.conflicts + 1]
    IN  CASE conflict_behavior \in {"first", "error"} -> t
          [] conflict_behavior = "last" ->
               [t EXCEPT !.base = replace_entry_by_key(st.base, key, GetItem(st.new, key)).entries]
          [] OTHER -> _conflict_resolve_ask_user(t, key)

\* A mutant of resolve_conflict: every policy keeps the record of the base.
resolve_conflict_keep_base(st, conflict_behavior, key) ==
    [st EXCEPT !.conflicts = st.conflicts + 1]

\* _conflict_resolution_fxns[conflict_behavior](base_bib_dat, new_bib_dat, key)
resolve_conflict(st, conflict_behavior, key) ==
    LET t == [st EXCEPT !.conflicts = st.conflicts + 1]
    IN  CASE conflict_behavior = "first" -> t
          [] conflict_behavior = "last" ->
               [t EXCEPT !.base = replace_entry_by_key(st.base, key, GetItem(st.new, key)).entries]
          [] conflict_behavior = "error" -> [t EXCEPT !.exit = 1]
          [] OTHER -> _conflict_resolve_ask_user(t, key)

\* A mutant of merge_key: a conflict is resolved whether or not the key is
\* to be removed.
merge_key_resolves_excluded(st, key, env) ==
    LET t == [st EXCEPT !.seen = Append(st.seen, <<st.store, key>>)]
    IN  IF ~HasKey(st.base, key)
        THEN [t EXCEPT !.base = Append(st.base, GetItem(st.new, key))]
        ELSE IF ~_are_entries_equivalent(GetItem(st.base, key), GetItem(st.new, key))
        THEN resolve_conflict(t, env.conflict_behavior, key)
        ELSE t

\* A mutant of merge_key: the record of an absent key that is to be removed
\* is not appended.
merge_key_skips_excluded(st, key, env) ==
    LET t == [st EXCEPT !.seen = Append(st.seen, <<st.store, key>>)]
    IN  IF ~HasKey(st.base, key)
        THEN IF key \in DOMAIN env.excluded_keys THEN t
             ELSE [t EXCEPT !.base = Append(st.base, GetItem(st.new, key))]
        ELSE IF ~_are_entries_equivalent(GetItem(st.base, key), GetItem(st.new, key))
                /\ (key \notin DOMAIN env.excluded_keys \/ env.exclude_interactive)
        THEN resolve_conflict(t, env.conflict_behavior, key)
        ELSE t

\* The body of the inner loop of merge_bib_files for one key.
merge_key(st, key, env) ==
    LET t == [st EXCEPT !.seen = Append(st.seen, <<st.store, key>>)]
    IN  IF ~HasKey(st.base, key)
        THEN [t EXCEPT !.base = Append(st.base, GetItem(st.new, key))]
        ELSE IF ~_are_entries_equivalent(GetItem(st.base, key), GetItem(st.new, key))
                /\ (key \notin DOMAIN env.excluded_keys \/ env.exclude_interactive)
        THEN resolve_conflict(t, env.conflict_behavior, key)
        ELSE t

RECURSIVE merge_keys(_, _, _)
merge_keys(st, keys, env) ==
    IF keys = <<>> \/ st.exit # 0 \/ st.stuck THEN st
    ELSE merge_keys(merge_key(st, Head(keys), env), Tail(keys), env)

\* merge_bib_files from the auxiliary store number i on
RECURSIVE merge_bib_files(_, _, _, _)
merge_bib_files(st, extra, i, env) ==
    IF i > Len(extra) \/ st.exit # 0 \/ st.stuck THEN st
    ELSE LET s0 == [st EXCEPT !.new = extra[i], !.store = i]
         IN  merge_bib_files(merge_keys(s0, dict_keys(extra[i]), env), extra, i + 1, env)

\* list_excluded_keys: key -> the (number of the) last exclude store holding it
list_excluded_keys(exclude) ==
    [k \in UNION {Range(ids(exclude[i])) : i \in 1..Len(exclude)} |->
        CHOOSE i \in 1..Len(exclude) :
            k \in Range(ids(exclude[i]))
            /\ \A j \in (i + 1)..Len(exclude) : k \notin Range(ids(exclude[j]))]

\* A mutant of remove_excluded_key: only an entry that was in the base store
\* before the merge is removed.
remove_excluded_key_kept_new(st, key, env) ==
    IF key \notin DOMAIN env.excluded_keys \/ key \notin Range(ids(env.base0)) THEN st
    ELSE [st EXCEPT !.base = remove_entry_by_key(st.base, key).entries]

\* A mutant of remove_excluded_key: the new key is tested against the keys
\* of the base store only.
remove_excluded_key_tests_base_only(st, key, env) ==
    IF key \notin DOMAIN env.excluded_keys THEN st
    ELSE IF ~env.exclude_interactive
    THEN [st EXCEPT !.base = remove_entry_by_key(st.base, key).entries]
    ELSE IF st.answers = <<>> THEN [st EXCEPT !.stuck = TRUE]
    ELSE LET a == Head(st.answers)
             t == [st EXCEPT !.answers = Tail(st.answers)]
         IN  CASE a.choice = 0 ->
                    [t EXCEPT !.base = remove_entry_by_key(st.base, key).entries]
               [] a.choice = 1 ->
                    IF a.key = Absent \/ a.key \in Range(ids(st.base))
                    THEN [st EXCEPT !.stuck = TRUE]
                    ELSE [t EXCEPT !.base = rename_in_place(st.base, key, a.key)]
               [] OTHER -> [st EXCEPT !.stuck = TRUE]

\* The body of the loop of remove_excluded_bib_keys for one key.
remove_excluded_key(st, key, env) ==
    IF key \notin DOMAIN env.excluded_keys THEN st
    ELSE IF ~env.exclude_interactive
    THEN [st EXCEPT !.base = remove_entry_by_key(st.base, key).entries]
    ELSE IF st.answers = <<>> THEN [st EXCEPT !.stuck = TRUE]
    ELSE LET a == Head(st.answers)
             t == [st EXCEPT !.answers = Tail(st.answers)]
         IN  CASE a.choice = 0 ->
                    [t EXCEPT !.base = remove_entry_by_key(st.base, key).entries]
               [] a.choice = 1 ->
                    IF a.key = Absent
                       \/ a.key \in DOMAIN env.excluded_keys \cup Range(ids(st.base))
                    THEN [st EXCEPT !.stuck = TRUE]
                    ELSE [t EXCEPT !.base = rename_in_place(st.base, key, a.key)]
               [] OTHER -> [st EXCEPT !.stuck = TRUE]

\* remove_excluded_bib_keys over keys, the list base_bib.ids read when the
\* loop starts
RECURSIVE remove_excluded_bib_keys(_, _, _)
remove_excluded_bib_keys(st, keys, env) ==
    IF keys = <<>> \/ st.stuck THEN st
    ELSE remove_excluded_bib_keys(remove_excluded_key(st, Head(keys), env), Tail(keys), env)

\* driver, from init_bib_database(bib_files[0]) on: the stores are given as
\* loaded.  saved is whether base_bib.save_to_file was reached.
driver(base, extra, exclude, conflict_mode, interactive_remove, answers) ==
    LET env == [excluded_keys |-> list_excluded_keys(exclude),
                exclude_interactive |-> interactive_remove,
                conflict_behavior |-> conflict_mode,
                base0 |-> base]
        st0 == [base |-> base, new |-> <<>>, store |-> 0, answers |-> answers, exit |-> 0,
                conflicts |-> 0, seen |-> <<>>, stuck |-> FALSE]
        m == merge_bib_files(st0, extra, 1, env)
        r == IF m.exit # 0 \/ m.stuck THEN m
             ELSE remove_excluded_bib_keys(m, ids(m.base), env)
    IN  [base |-> r.base, exit |-> r.exit, conflicts |-> r.conflicts, seen |-> r.seen,
         stuck |-> r.stuck \/ r.answers # <<>>,
         saved |-> r.exit = 0]

(***************************************************************************)
(* Inputs of the operations.                                               *)
(***************************************************************************)
\* Records handed to add_entry and replace_entry_by_key, some without an ID
\* or an ENTRYTYPE.
NewEntries ==
    [ID : {"SmithJ20", "K1", Absent}, ENTRYTYPE : {"article", Absent},
     doi : {Absent, "10.1/a"}, file : {Absent}, title : {"t", "u"}]

LookupKeys == {"SmithJ20", "SmithJ20A", "K1", "K2"}
PdfFiles == {"f1.pdf", "f2.pdf"}

\* Records of the .bib files the merge script loads.
MergeRecords ==
    [ID : {"K1", "K2"}, ENTRYTYPE : {"article"}, doi : {Absent}, file : {Absent},
     title : {"t", "u"}] \ {[ID |-> "K2", ENTRYTYPE |-> "article", doi |-> Absent,
                            file |-> Absent, title |-> "u"]}
MergeRecord(id, title) ==
    [ID |-> id, ENTRYTYPE |-> "article", doi |-> Absent, file |-> Absent, title |-> title]

\* The base stores of a merge (two entries may share a key) and the
\* auxiliary stores (each key once).
MergeStores == SeqsUpTo(MergeRecords, MaxLoaded)
AuxStores == {es \in MergeStores : \A i, j \in 1..Len(es) : es[i].ID = es[j].ID => i = j}

\* The lists of exclude stores
ExcludeLists ==
    { <<>>, << <<MergeRecord("K1", "t")>> >>, << <<MergeRecord("K2", "u")>> >>,
      << <<MergeRecord("K1", "u")>>, <<MergeRecord("K2", "t"), MergeRecord("K1", "t")>> >> }

\* The auxiliary stores the store specification merges in
SampleAux ==
    { <<MergeRecord("K1", "t")>>, <<MergeRecord("K1", "u"), MergeRecord("K2", "t")>> }

\* What the user may type at a prompt: the index of the choice and, for a
\* new key, the key.
NewKeys == {"N1", "K2"}
AnswerSet ==
    [choice : 0..3, key : {Absent}] \cup [choice : {1, 2}, key : NewKeys]

Distinct(es) == \A i, j \in 1..Len(es) : es[i].ID = es[j].ID => i = j

NoMerge == [pc |-> "none"]
NoBatch == [pc |-> "none"]
NoDoc == [text |-> <<>>, reg |-> <<>>]

(***************************************************************************)
(* Spec: the operations of the store, from an empty store.                 *)
(***************************************************************************)
Init ==
    /\ entries = <<>>
    /\ prev = NoOp
    /\ last = NoOp
    /\ doc = NoDoc
    /\ result = Absent
    /\ mg = NoMerge
    /\ batch = NoBatch

Done(op, key, r) ==
    /\ Len(r.entries) <= MaxEntries
    /\ entries' = r.entries
    /\ last' = [NoOp EXCEPT !.op = op, !.key = key, !.err = r.err,
                            !.changed = (r.entries # entries)]
    /\ UNCHANGED <<prev, doc, result, mg, batch>>

AddEntry ==
    \E new_entry \in NewEntries :
        Done("add_entry", new_entry.ID, add_entry(entries, new_entry))

ReplaceEntryByKey ==
    \E key \in LookupKeys, new_entry \in NewEntries :
        Done("replace_entry_by_key", key, replace_entry_by_key(entries, key, new_entry))

RemoveEntryByKey ==
    \E key \in LookupKeys :
        Done("remove_entry_by_key", key, remove_entry_by_key(entries, key))

\* self[key]
GetEntry ==
    \E key \in LookupKeys :
        Done("getitem", key,
             [entries |-> entries, err |-> IF HasKey(entries, key) THEN "none" ELSE "KeyError"])

AddEntryByString ==
    \E file_name \in PdfFiles \cup {Absent}, skip_if_file_exists, skip_if_doi_exists \in BOOLEAN :
        Done("add_entry_by_string", Absent,
             add_entry_by_string(entries, <<RawRecord("10.1/a")>>, file_name,
                                 skip_if_file_exists, skip_if_doi_exists))

\* merge_bib_files, then remove_excluded_bib_keys, without prompts
MergeInto ==
    \E new \in SampleAux, exclude \in ExcludeLists, conflict_mode \in {"first", "last"} :
        LET r == driver(entries, <<new>>, exclude, conflict_mode, FALSE, <<>>)
        IN  /\ ~r.stuck
            /\ Done("merge", Absent, [entries |-> r.base, err |-> "none"])

Next ==
    \/ AddEntry
    \/ ReplaceEntryByKey
    \/ RemoveEntryByKey
    \/ GetEntry
    \/ AddEntryByString
    \/ MergeInto

Spec == Init /\ [][Next]_vars

(***************************************************************************)
(* SpecMerge: a run of the merge driver, one key at a time.                *)
(*   pc     "load": between auxiliary stores; "keys": in the inner loop of *)
(*          merge_bib_files; "cleanup": in remove_excluded_bib_keys;       *)
(*          "saved": save_to_file was called; "exit": sys.exit was called  *)
(*   env    the exclusion map, the two options and the base store as loaded*)
(*   n      the number of auxiliary stores loaded so far                   *)
(*   aux1   the first auxiliary store loaded                               *)
(*   new    the auxiliary store being merged, keys its keys still to do    *)
(***************************************************************************)
InitMerge ==
    /\ entries \in MergeStores
    /\ \E exclude \in ExcludeLists, conflict_mode \in {"ask", "first", "last", "error"},
          interactive_remove \in BOOLEAN :
          mg = [pc |-> "load",
                env |-> [excluded_keys |-> list_excluded_keys(exclude),
                         exclude_interactive |-> interactive_remove,
                         conflict_behavior |-> conflict_mode,
                         base0 |-> entries],
                n |-> 0, aux1 |-> <<>>, new |-> <<>>, keys |-> <<>>,
                conflicts |-> 0, exit |-> 0]
    /\ prev = NoOp
    /\ last = NoOp
    /\ doc = NoDoc
    /\ result = Absent
    /\ batch = NoBatch

\* The record the operators of the merge thread, built from the state
MergeSt(answers) ==
    [base |-> entries, new |-> mg.new, store |-> mg.n, answers |-> answers,
     exit |-> 0, conflicts |-> mg.conflicts, seen |-> <<>>, stuck |-> FALSE]

\* for bib_file in extra_bib_files: new_bib_dat = init_bib_database(bib_file)
LoadAux ==
    /\ mg.pc = "load"
    /\ mg.n < MaxAux
    /\ \E new \in AuxStores :
          mg' = [mg EXCEPT !.new = new, !.keys = dict_keys(new), !.n = mg.n + 1,
                           !.aux1 = IF mg.n = 0 THEN new ELSE mg.aux1,
                           !.pc = IF new = <<>> THEN "load" ELSE "keys"]
    /\ UNCHANGED <<entries, prev, last, doc, result, batch>>

\* One pass of the inner loop of merge_bib_files
MergeKey ==
    /\ mg.pc = "keys"
    /\ \E answers \in {<<>>} \cup {<<a>> : a \in AnswerSet} :
          LET r == merge_key(MergeSt(answers), Head(mg.keys), mg.env)
          IN  /\ ~r.stuck
              /\ r.answers = <<>>
              /\ entries' = r.base
              /\ mg' = [mg EXCEPT !.new = r.new, !.keys = Tail(mg.keys),
                                  !.conflicts = r.conflicts, !.exit = r.exit,
                                  !.pc = IF r.exit # 0 THEN "exit"
                                         ELSE IF Tail(mg.keys) = <<>> THEN "load" ELSE "keys"]
    /\ UNCHANGED <<prev, last, doc, result, batch>>

\* remove_excluded_bib_keys starts: for key in base_bib.ids
StartCleanup ==
    /\ mg.pc = "load"
    /\ mg' = [mg EXCEPT !.pc = "cleanup", !.keys = ids(entries)]
    /\ UNCHANGED <<entries, prev, last, doc, result, batch>>

\* One pass of the loop of remove_excluded_bib_keys
CleanupKey ==
    /\ mg.pc = "cleanup"
    /\ mg.keys # <<>>
    /\ \E answers \in {<<>>} \cup {<<a>> : a \in AnswerSet} :
          LET r == remove_excluded_key(MergeSt(answers), Head(mg.keys), mg.env)
          IN  /\ ~r.stuck
              /\ r.answers = <<>>
              /\ entries' = r.base
              /\ mg' = [mg EXCEPT !.keys = Tail(mg.keys)]
    /\ UNCHANGED <<prev, last, doc, result, batch>>

\* base_bib.save_to_file(output_file)
Save ==
    /\ mg.pc = "cleanup"
    /\ mg.keys = <<>>
    /\ mg' = [mg EXCEPT !.pc = "saved"]
    /\ UNCHANGED <<entries, prev, last, doc, result, batch>>

NextMerge ==
    \/ LoadAux
    \/ MergeKey
    \/ StartCleanup
    \/ CleanupKey
    \/ Save

SpecMerge == InitMerge /\ [][NextMerge]_vars

(***************************************************************************)
(* SpecImport: add_entry_by_file, again and again, on a store that was     *)
(* loaded or built before.                                                 *)
(***************************************************************************)
\* Page texts: no identifier; one identifier; an identifier that ends a
\* sentence, which the first two expressions read differently.
SampleTexts ==
    { <<"a">>, <<DoiPrefix, "a">>, <<DoiPrefix, "a", ".", Space>> }

\* The stores an import may find: every entry with its own key, any file
\* and doi.
StoredRecord(i, f, d) ==
    [ID |-> "E" \o Alphabet[i], ENTRYTYPE |-> "article", doi |-> d, file |-> f, title |-> "t"]

ImportStores ==
    UNION { {[i \in 1..n |-> StoredRecord(i, fs[i], ds[i])] :
                fs \in [1..n -> PdfFiles \cup {Absent}], ds \in [1..n -> {Absent, "10.1/a"}]} :
            n \in 0..MaxEntries }

\* The summary of add_entry_by_file(pdf_file, ...) that returned r on the
\* store es
ImportSummary(es, pdf_file, skip_if_file_exists, skip_if_doi_exists, r, calls) ==
    [NoOp EXCEPT !.op = "add_entry_by_file", !.err = r.err, !.changed = (r.entries # es),
                 !.file = pdf_file, !.skip_file = skip_if_file_exists,
                 !.skip_doi = skip_if_doi_exists, !.doi = r.doi,
                 !.nFile = CountFile(es, pdf_file),
                 !.nDoi = IF r.doi = Absent THEN 0 ELSE CountDoi(es, r.doi),
                 !.calls = calls]

InitImport ==
    /\ entries \in ImportStores
    /\ prev = NoOp
    /\ last = NoOp
    /\ doc = NoDoc
    /\ result = Absent
    /\ mg = NoMerge
    /\ batch = NoBatch

\* The first import of a run, or the second
ImportFile ==
    /\ prev.op = "init"
    /\ \E pdf_file \in PdfFiles, parse_ok \in BOOLEAN, text \in SampleTexts,
          skip_if_file_exists, skip_if_doi_exists \in BOOLEAN :
        \E reg \in [Candidates(text) -> Outcomes] :
            LET r == add_entry_by_file(entries, pdf_file, parse_ok, text, reg,
                                       skip_if_file_exists, skip_if_doi_exists)
            IN  /\ entries' = r.entries
                /\ last' = ImportSummary(entries, pdf_file, skip_if_file_exists,
                                         skip_if_doi_exists, r, <<>>)
                /\ prev' = last
                /\ UNCHANGED <<doc, result, mg, batch>>

NextImport == ImportFile

SpecImport == InitImport /\ [][NextImport]_vars

(***************************************************************************)
(* SpecExtract: one add_entry_by_file on every page text of up to MaxText  *)
(* tokens and every registry.                                              *)
(***************************************************************************)
Texts == SeqsUpTo(Tokens, MaxText)

InitExtract ==
    /\ entries \in {<<>>, <<StoredRecord(1, Absent, Absent)>>}
    /\ \E text \in Texts : \E reg \in [Candidates(text) -> Outcomes] :
          doc = [text |-> text, reg |-> reg]
    /\ prev = NoOp
    /\ last = NoOp
    /\ result = Absent
    /\ mg = NoMerge
    /\ batch = NoBatch

ImportDoc ==
    /\ last.op = "init"
    /\ \E parse_ok \in BOOLEAN :
          LET r == add_entry_by_file(entries, "f1.pdf", parse_ok, doc.text, doc.reg, TRUE, FALSE)
          IN  /\ entries' = r.entries
              /\ last' = ImportSummary(entries, "f1.pdf", TRUE, FALSE, r, r.calls)
    /\ UNCHANGED <<prev, doc, result, mg, batch>>

NextExtract == ImportDoc

SpecExtract == InitExtract /\ [][NextExtract]_vars

(***************************************************************************)
(* SpecFormatId: format_id on stores that hold a run of the keys a base    *)
(* key can take.                                                           *)
(***************************************************************************)
\* The base key and its 26 suffixed keys, in the order format_id tries them
KeysOf(base) == <<base>> \o [i \in 1..Len(Alphabet) |-> base \o Alphabet[i]]

\* A store with the first n keys of ks, but the one at position hole, after
\* an entry of another key when other is TRUE
IdStore(ks, n, hole, other) ==
    LET held == SelectSeq([i \in 1..n |-> IF i = hole THEN Absent ELSE ks[i]],
                          LAMBDA k : k # Absent)
    IN  (IF other THEN <<MergeRecord("K1", "t")>> ELSE <<>>)
        \o [i \in 1..Len(held) |-> MergeRecord(held[i], "t")]

IdStores ==
    LET ks == KeysOf(record_id_of(RawRecord("10.1/a")))
    IN  {IdStore(ks, n, hole, other) : n \in 0..Len(ks), hole \in 0..Len(ks), other \in BOOLEAN}

InitFormatId ==
    /\ entries \in IdStores
    /\ prev = NoOp
    /\ last = NoOp
    /\ doc = NoDoc
    /\ result = Absent
    /\ mg = NoMerge
    /\ batch = NoBatch

ApplyFormatId ==
    /\ result = Absent
    /\ result' = format_id(RawRecord("10.1/a"), entries)
    /\ UNCHANGED <<entries, prev, last, doc, mg, batch>>

NextFormatId == ApplyFormatId

SpecFormatId == InitFormatId /\ [][NextFormatId]_vars

(***************************************************************************)
(* SpecBatch: update_database_from_folder, one file of the folder at a     *)
(* time.  batch.n is the number of files os.walk yields, batch.pos how    *)
(* many the loop has taken, batch.log what became of each.                 *)
(***************************************************************************)
FullStore == IdStore(KeysOf(record_id_of(RawRecord("10.1/a"))), Len(Alphabet) + 1, 0, FALSE)

InitBatch ==
    /\ entries \in {<<>>, FullStore, IdStore(KeysOf("SmithJ20"), Len(Alphabet) + 1, Len(Alphabet) + 1, FALSE)}
    /\ \E n \in 1..MaxDocs, no_duplicates \in BOOLEAN :
          batch = [pc |-> "run", n |-> n, pos |-> 0, no_duplicates |-> no_duplicates, log |-> <<>>]
    /\ prev = NoOp
    /\ last = NoOp
    /\ doc = NoDoc
    /\ result = Absent
    /\ mg = NoMerge

CaughtErrors == {"DoiNotFoundError", "BibRetrievalError", "PdfParsingError"}

\* The body of the loop of update_database_from_folder for the file f + ext:
\* raised is whether an exception leaves the function.
batch_file(es, f, ext, parse_ok, text, reg, no_duplicates) ==
    IF ext # ".pdf" THEN [entries |-> es, outcome |-> "not a pdf", raised |-> FALSE]
    ELSE LET r == add_entry_by_file(es, f \o ext, parse_ok, text, reg, TRUE, no_duplicates)
         IN  [entries |-> r.entries, outcome |-> r.err,
              raised |-> r.err \notin CaughtErrors \cup {"none"}]

ProcessFile ==
    /\ batch.pc = "run"
    /\ batch.pos < batch.n
    /\ \E ext \in {".pdf", ".txt"}, parse_ok \in BOOLEAN, text \in SampleTexts :
          \E reg \in [Candidates(text) -> Outcomes] :
              \E r \in {batch_file(entries, "doc" \o Alphabet[batch.pos + 1], ext, parse_ok,
                                   text, reg, batch.no_duplicates)} :
                  /\ entries' = r.entries
                  /\ batch' = [batch EXCEPT !.pos = batch.pos + 1,
                                            !.log = Append(batch.log, r.outcome),
                                            !.pc = IF r.raised THEN "raised" ELSE "run"]
    /\ UNCHANGED <<prev, last, doc, result, mg>>

\* return bibdat
FinishBatch ==
    /\ batch.pc = "run"
    /\ batch.pos = batch.n
    /\ batch' = [batch EXCEPT !.pc = "returned"]
    /\ UNCHANGED <<entries, prev, last, doc, result, mg>>

NextBatch ==
    \/ ProcessFile
    \/ FinishBatch

SpecBatch == InitBatch /\ [][NextBatch]_vars

(***************************************************************************)
(* The claims on the store operations, checked under Spec.                 *)
(***************************************************************************)
\* C1: from an empty store, after any sequence of add_entry,
\* add_entry_by_string, replace_entry_by_key, remove_entry_by_key and merge
\* steps, no two entries of the store have the same ID.  add_entry and
\* replace_entry_by_key store the ID they are given, so the statement fails.
C1_KeysUnique == Distinct(entries)

\* The index has exactly the IDs of the sequence as its keys, and a lookup
\* by ID returns an entry of the sequence that carries the ID.
C2_IndexOfSequence ==
    /\ DOMAIN entries_dict(entries) = Range(ids(entries))
    /\ \A key \in Range(ids(entries)) :
          /\ HasKey(entries, key)
          /\ GetItem(entries, key).ID = key
          /\ GetItem(entries, key) \in Range(entries)
    /\ \A key \in LookupKeys \ Range(ids(entries)) : ~HasKey(entries, key)
    /\ last.op = "getitem" =>
          (last.err = "KeyError" <=> last.key \notin Range(ids(entries)))

\* A step that leaves the sequence as it is leaves the index as it is.
C2_IndexFollowsSequence ==
    entries' = entries => entries_dict(entries') = entries_dict(entries)

\* C2: the key-to-record index is a projection of the entry sequence: after
\* any sequence of add, replace and remove operations entries_dict has
\* exactly the IDs occurring in entries as its keys, a lookup by ID returns
\* an entry of the sequence carrying that ID, and no operation changes the
\* index without changing the sequence.
C2_IndexIsProjection == [] C2_IndexOfSequence /\ [][C2_IndexFollowsSequence]_vars

\* C2 happens: a replace has made two entries share an ID, and the lookup
\* returns the second of them.
C2_Witness ==
    /\ last.op = "replace_entry_by_key"
    /\ last.changed
    /\ Len(entries) = 2
    /\ entries[1].ID = entries[2].ID
    /\ entries[1] # entries[2]
    /\ GetItem(entries, entries[1].ID) = entries[2]

(***************************************************************************)
(* The claims on repeated imports, checked under SpecImport: prev is the   *)
(* first import of a run and last is the second.                           *)
(***************************************************************************)
\* Two imports of the same file followed one another, both with
\* skip_if_file_exists=True.
C3_SameFileTwice ==
    /\ prev.op = "add_entry_by_file"
    /\ last.op = "add_entry_by_file"
    /\ prev.file = last.file
    /\ prev.skip_file
    /\ last.skip_file

\* The statement of C3 as it stands, for two imports that both returned:
\* exactly one record of the file, and a second import that changed nothing.
C3_ExactlyOneRecordOfFile ==
    (C3_SameFileTwice /\ prev.err = "none" /\ last.err = "none") =>
        /\ CountFile(entries, last.file) = 1
        /\ ~last.changed

\* C3 (amended): for a store that holds at most one record of the file f,
\* after two imports of f with skip_if_file_exists=True at most one record
\* of f is stored; when a record of f was stored before or the first import
\* stored one, exactly one is stored and the second import leaves the entry
\* sequence unchanged.
C3_AtMostOneRecordOfFile ==
    (C3_SameFileTwice /\ prev.nFile <= 1) =>
        /\ CountFile(entries, last.file) <= 1
        /\ (prev.nFile = 1 \/ prev.changed) =>
              /\ CountFile(entries, last.file) = 1
              /\ ~last.changed

\* C3 happens: the first import stored a record of a file the store did not
\* hold, the second import of the file was skipped.
C3_Witness ==
    /\ C3_SameFileTwice
    /\ prev.nFile = 0
    /\ prev.changed
    /\ last.nFile = 1
    /\ ~last.changed
    /\ CountFile(entries, last.file) = 1

\* Two imports from different files followed one another, both resolved to
\* a record of the same doi and both with skip_if_doi_exists=True.
C4_SameDoiTwice ==
    /\ prev.op = "add_entry_by_file"
    /\ last.op = "add_entry_by_file"
    /\ prev.err = "none"
    /\ last.err = "none"
    /\ prev.file # last.file
    /\ prev.doi # Absent
    /\ prev.doi = last.doi
    /\ prev.skip_doi
    /\ last.skip_doi

\* The insertion that s summarises passed the file check of
\* add_entry_by_string.
PassedFileCheck(s) == ~(s.skip_file /\ s.nFile > 0)

\* The statement of C4 as it stands: exactly one record of the doi.
C4_ExactlyOneRecordOfDoi ==
    C4_SameDoiTwice => CountDoi(entries, last.doi) = 1

\* C4 (amended): for a store that holds no record of the doi, inserting two
\* resolved records of that doi from different files with
\* skip_if_doi_exists=True leaves at most one record of the doi, and
\* exactly one unless both insertions are skipped because their files are
\* stored already; a store that holds records of the doi keeps as many as
\* it held.
C4_AtMostOneRecordOfDoi ==
    C4_SameDoiTwice =>
        /\ prev.nDoi = 0 =>
              /\ CountDoi(entries, last.doi) <= 1
              /\ CountDoi(entries, last.doi) = 1 <=>
                    (PassedFileCheck(prev) \/ PassedFileCheck(last))
        /\ prev.nDoi > 0 =>
              /\ CountDoi(entries, last.doi) = prev.nDoi
              /\ ~prev.changed
              /\ ~last.changed

\* C4 happens: the first insertion stored the record of a doi the store did
\* not hold, the second one passed the file check and was skipped for its doi.
C4_Witness ==
    /\ C4_SameDoiTwice
    /\ prev.nDoi = 0
    /\ prev.changed
    /\ PassedFileCheck(last)
    /\ last.nDoi = 1
    /\ ~last.changed
    /\ CountDoi(entries, last.doi) = 1

(***************************************************************************)
(* The claim on format_id, checked under SpecFormatId: result is the key   *)
(* format_id gave for a record of base key SmithJ20 on the store entries.  *)
(***************************************************************************)
BaseKey == "SmithJ20"

\* The letters whose suffixed key is not an ID of the store
FreeLetters == {i \in 1..Len(Alphabet) : (BaseKey \o Alphabet[i]) \notin Range(ids(entries))}

\* C5: format_id returns the base key when it is not among the IDs of the
\* store; otherwise the base key followed by the first letter of A..Z whose
\* suffixed key is not among them (SmithJ20B when SmithJ20 and SmithJ20A are
\* stored); it fails with the key-space-exhausted error exactly when the
\* base key and all 26 suffixed keys are stored; the key it returns is never
\* an ID of the store.
C5_CollisionResolution ==
    result # Absent =>
        /\ BaseKey \notin Range(ids(entries)) => result = BaseKey
        /\ (BaseKey \in Range(ids(entries)) /\ FreeLetters # {}) =>
              \E i \in FreeLetters :
                  /\ \A j \in FreeLetters : i <= j
                  /\ result = BaseKey \o Alphabet[i]
        /\ result = KeySpaceExhausted <=>
              (BaseKey \in Range(ids(entries)) /\ FreeLetters = {})
        /\ result # KeySpaceExhausted => result \notin Range(ids(entries))
        /\ Range(ids(entries)) = {"SmithJ20", "SmithJ20A"} => result = "SmithJ20B"

\* C5 happens: the base key and its first suffixes are taken, and format_id
\* gave the key of a later letter.
C5_Witness ==
    /\ {"SmithJ20", "SmithJ20A", "SmithJ20B"} \subseteq Range(ids(entries))
    /\ result = "SmithJ20C"

(***************************************************************************)
(* The claims on the merge script, checked under SpecMerge.                *)
(***************************************************************************)
\* C6: for every base store, auxiliary stores, exclude stores and conflict
\* policy that does not abort, after merge_bib_files and then
\* remove_excluded_bib_keys with ask_to_remove=False the store that is saved
\* holds no entry whose key is a key of an exclude store.
C6_NoExcludedKeyLeft ==
    (mg.pc = "saved" /\ ~mg.env.exclude_interactive) =>
        \A i \in 1..Len(entries) : entries[i].ID \notin DOMAIN mg.env.excluded_keys

\* C6 happens: an auxiliary store brought an excluded key the base store did
\* not hold, and a store with entries was saved.
C6_Witness ==
    /\ mg.pc = "saved"
    /\ ~mg.env.exclude_interactive
    /\ mg.n >= 1
    /\ \E i \in 1..Len(mg.aux1) :
          /\ mg.aux1[i].ID \in DOMAIN mg.env.excluded_keys
          /\ mg.aux1[i].ID \notin Range(ids(mg.env.base0))
    /\ entries # <<>>

\* The store as loaded, with distinct keys, is merged into itself as the
\* only auxiliary store under the policy 'first', without exclude stores.
C7_SelfMerge ==
    /\ mg.pc # "none"
    /\ mg.n = 1
    /\ mg.aux1 = mg.env.base0
    /\ Distinct(mg.env.base0)
    /\ mg.env.conflict_behavior = "first"
    /\ DOMAIN mg.env.excluded_keys = {}

\* C7: merging a store of distinct keys into itself as the sole auxiliary
\* store under the policy 'first' and without exclude stores yields the same
\* entries in the same order, and the conflict policy is never invoked.
C7_MergeIdempotent ==
    C7_SelfMerge =>
        /\ entries = mg.env.base0
        /\ mg.conflicts = 0
        /\ mg.pc # "exit"

\* C7 happens: a store of two entries was merged into itself and saved.
C7_Witness ==
    /\ C7_SelfMerge
    /\ mg.pc = "saved"
    /\ Len(mg.env.base0) = 2
    /\ entries = mg.env.base0

(***************************************************************************)
(* The claims on pdf2bib, checked under SpecExtract: doc is the page text  *)
(* and the registry, last the summary of the import with the resolver      *)
(* calls pdf2bib made.                                                     *)
(***************************************************************************)
\* The strategies that match the page text, the identifier each looks up,
\* and whether the resolver reports success for it
Matching == {k \in 1..Len(all_doi_res) : search(all_doi_res[k], doc.text) # <<>>}
CandidateOf(k) == doi_string(search(all_doi_res[k], doc.text))
Resolves(k) == doc.reg[CandidateOf(k)] # "fail"

\* pdf2bib read the page text and ran its loop.
Extracted == last.op = "add_entry_by_file" /\ last.err # "PdfParsingError"

\* The statement of C8 as it stands: the resolver is called for the match of
\* the earliest matching strategy and for nothing else.
C8_OnlyFirstMatchTried ==
    Extracted =>
        /\ Len(last.calls) <= 1
        /\ last.calls # <<>> => \A k \in Matching : last.calls[1].re <= k

\* C8 (amended): pdf2bib tries the strategies of all_doi_res in order,
\* wherever in the text their matches lie; it looks up the match of each
\* matching strategy in turn until the resolver reports success, so the
\* record is that of the earliest matching strategy whose identifier
\* resolves, and no strategy is tried after a success; a lookup that fails
\* is followed by the next matching strategy.
C8_FirstResolvedMatch ==
    Extracted =>
        LET calls == last.calls
            n == Len(calls)
        IN  /\ \A i \in 1..n :
                  /\ calls[i].re \in Matching
                  /\ calls[i].doi = CandidateOf(calls[i].re)
                  /\ calls[i].success = Resolves(calls[i].re)
                  /\ {calls[j].re : j \in 1..(i - 1)} = {k \in Matching : k < calls[i].re}
                  /\ i < n => ~calls[i].success
            /\ n = 0 <=> Matching = {}
            /\ (n > 0 /\ ~calls[n].success) => {calls[j].re : j \in 1..n} = Matching
            /\ last.err = "none" => (n > 0 /\ calls[n].success /\ last.doi = calls[n].doi)

\* C8 happens: the identifier of the first strategy did not resolve, the
\* second strategy read another identifier, which resolved and was stored.
C8_Witness ==
    /\ Extracted
    /\ Len(last.calls) = 2
    /\ ~last.calls[1].success
    /\ last.calls[2].success
    /\ last.calls[1].doi # last.calls[2].doi
    /\ last.err = "none"
    /\ last.changed

ExtractionErrors == {"DoiNotFoundError", "BibRetrievalError"}

\* The statement of C9 as it stands: a lookup of the earliest match that
\* reports success=false gives the retrieval error.
C9_FailedLookupIsError ==
    Extracted =>
        /\ last.err = "DoiNotFoundError" <=> Matching = {}
        /\ (last.calls # <<>> /\ ~last.calls[1].success) => last.err = "BibRetrievalError"
        /\ last.err \in ExtractionErrors => ~last.changed

\* C9 (amended): pdf2bib fails with DoiNotFoundError exactly when no
\* strategy matches anywhere in the text, and with BibRetrievalError exactly
\* when a strategy matched and the lookups end without a record: the
\* resolver reports success=false for the identifier of every matching
\* strategy, or reports success with an empty string; a failed lookup
\* followed by the successful lookup of a later strategy is no error.  In
\* both failures no record is added to the store.
C9_ErrorOutcomes ==
    Extracted =>
        LET resolved == {k \in Matching : Resolves(k)}
            first == CHOOSE k \in resolved : \A j \in resolved : k <= j
        IN  /\ last.err = "DoiNotFoundError" <=> Matching = {}
            /\ last.err = "BibRetrievalError" <=>
                  /\ Matching # {}
                  /\ resolved = {} \/ doc.reg[CandidateOf(first)] = "empty"
            /\ (resolved # {} /\ doc.reg[CandidateOf(first)] = "ok") => last.err = "none"
            /\ last.err \in ExtractionErrors => ~last.changed

\* C9 happens: two strategies read different identifiers, the resolver
\* reported success=false for both, and the store was left as it was.
C9_Witness ==
    /\ Extracted
    /\ last.err = "BibRetrievalError"
    /\ Len(last.calls) >= 2
    /\ last.calls[1].doi # last.calls[2].doi
    /\ \A i \in 1..Len(last.calls) : ~last.calls[i].success
    /\ ~last.changed

(***************************************************************************)
(* The claim on the batch run, checked under SpecBatch.                    *)
(***************************************************************************)
PerDocumentFailures ==
    {"DoiNotFoundError", "BibRetrievalError", "PdfParsingError", "RuntimeError"}

\* C10: in a batch run over a folder, a failure of a document of the kinds
\* identifier-not-found, retrieval error, PDF parsing error or
\* key-space-exhausted skips only that document, and every remaining
\* document of the folder is still processed.  The RuntimeError of
\* format_id is not caught, so the statement fails: the run ends at the
\* document and the documents after it are not processed.
C10_BatchContinues ==
    ~ /\ batch.pc = "raised"
      /\ batch.log # <<>>
      /\ batch.log[Len(batch.log)] \in PerDocumentFailures
      /\ batch.pos < batch.n

(***************************************************************************)
(* The claims on the errors of the store operations, checked under Spec.   *)
(***************************************************************************)
\* The step is add_entry(new_entry).
AddEntryOf(new_entry) == Done("add_entry", new_entry.ID, add_entry(entries, new_entry))

\* What C11 says of a step add_entry(new_entry)
C11_AddEntryStep(new_entry) ==
    IF new_entry.ID = Absent \/ new_entry.ENTRYTYPE = Absent
    THEN /\ last'.err = "ValueError"
         /\ entries' = entries
    ELSE /\ last'.err = "none"
         /\ Len(entries') = Len(entries) + 1
         /\ entries'[Len(entries')] = new_entry
         /\ \A i \in 1..Len(entries) : entries'[i] = entries[i]

\* C11: add_entry fails with the invalid-record error (ValueError) when the
\* record lacks ENTRYTYPE or ID and leaves the entry sequence unchanged;
\* otherwise the record becomes the last entry and the earlier entries keep
\* their content and order.
C11_AddEntryValidates ==
    [][last'.op = "add_entry" =>
          \A new_entry \in NewEntries : AddEntryOf(new_entry) => C11_AddEntryStep(new_entry)]_vars

\* C11 happens: a valid record was appended to a store that held an entry.
C11_Witness ==
    /\ last.op = "add_entry"
    /\ last.err = "none"
    /\ last.changed
    /\ Len(entries) = 2
    /\ entries[2].ID = last.key

\* The step is replace_entry_by_key(key, new_entry).
ReplaceEntryOf(key, new_entry) ==
    Done("replace_entry_by_key", key, replace_entry_by_key(entries, key, new_entry))

KeyedOps == {"getitem", "replace_entry_by_key", "remove_entry_by_key"}

\* The statement of C12 as it stands: with a key that is no ID of the store,
\* each of the three operations raises KeyError and changes nothing.
C12_AbsentKeyIsKeyError ==
    [][(last'.op \in KeyedOps /\ last'.key \notin Range(ids(entries))) =>
          (last'.err = "KeyError" /\ entries' = entries)]_vars

\* C12 (amended): for a key that is not the ID of any stored entry, get and
\* remove_entry_by_key fail with the key-not-found error (KeyError), and so
\* does replace_entry_by_key when the new record has an ID and an ENTRYTYPE;
\* a new record that lacks one of them fails with the invalid-record error
\* (ValueError) before the key is looked up.  In every case the entry
\* sequence is unchanged.
C12_AbsentKeyFails ==
    [][(last'.op \in KeyedOps /\ last'.key \notin Range(ids(entries))) =>
          /\ entries' = entries
          /\ last'.op \in {"getitem", "remove_entry_by_key"} => last'.err = "KeyError"
          /\ last'.op = "replace_entry_by_key" =>
             \A new_entry \in NewEntries :
                ReplaceEntryOf(last'.key, new_entry) =>
                    last'.err = IF new_entry.ID = Absent \/ new_entry.ENTRYTYPE = Absent
                                THEN "ValueError" ELSE "KeyError"]_vars

\* C12 happens: on a store with entries, a removal by a key that is not
\* stored raised KeyError.
C12_Witness ==
    /\ last.op = "remove_entry_by_key"
    /\ last.key \notin Range(ids(entries))
    /\ last.err = "KeyError"
    /\ ~last.changed
    /\ Len(entries) = 2

(***************************************************************************)
(* The claims on the conflict policies, checked under SpecMerge.           *)
(***************************************************************************)
\* The stores of a run of at most two auxiliary stores, base first
MergedStores ==
    IF mg.n = 0 THEN <<mg.env.base0>>
    ELSE IF mg.n = 1 THEN <<mg.env.base0, mg.aux1>>
    ELSE <<mg.env.base0, mg.aux1, mg.new>>

\* The stores that hold the key, by their position in MergedStores
Holders(key) == {i \in 1..Len(MergedStores) : HasKey(MergedStores[i], key)}

\* The record the policy keeps for the key: that of the first store holding
\* it under 'first', that of the last store holding it under 'last'
KeptRecord(key, conflict_behavior) ==
    LET h == Holders(key)
        i == IF conflict_behavior = "first"
             THEN CHOOSE x \in h : \A y \in h : x <= y
             ELSE CHOOSE x \in h : \A y \in h : y <= x
    IN  GetItem(MergedStores[i], key)

\* A run under 'first' or 'last', without exclude stores, on a base store of
\* distinct keys, has merged at most two auxiliary stores and saved.
C13_PolicyRun ==
    /\ mg.pc = "saved"
    /\ mg.n <= 2
    /\ mg.env.conflict_behavior \in {"first", "last"}
    /\ DOMAIN mg.env.excluded_keys = {}
    /\ Distinct(mg.env.base0)

C14_ExitState ==
    /\ mg.pc = "exit" =>
          /\ mg.exit \in {1, 2}
          /\ mg.exit = 1 <=> mg.env.conflict_behavior = "error"
          /\ mg.exit = 2 <=> mg.env.conflict_behavior = "ask"
    /\ mg.pc \in {"load", "keys", "cleanup", "saved"} =>
          /\ mg.exit = 0
          /\ mg.env.conflict_behavior = "error" => mg.conflicts = 0

\* No step leaves a run that was ended, and the step that ends it leaves
\* the base store as it was.
C14_ExitStep ==
    /\ mg.pc # "exit"
    /\ mg'.pc = "exit" => entries' = entries

\* C14: at the first conflict handled under the policy 'error' the merge
\* ends with exit code 1, and when the user picks 'Abort' under 'ask' it
\* ends with exit code 2; after either no later key or auxiliary store is
\* processed and the output file is not written.
C14_AbortIsTerminal == [] C14_ExitState /\ [][C14_ExitStep]_vars

\* C14 happens: the first conflict under 'error' ended the run with code 1
\* while a key of the auxiliary store was still to be merged.
C14_Witness ==
    /\ mg.pc = "exit"
    /\ mg.exit = 1
    /\ mg.conflicts = 1
    /\ mg.n = 1
    /\ mg.keys # <<>>

(***************************************************************************)
(* SpecRoundTrip: save_to_file, then load_from_file of the file written.   *)
(* doc is the file written: the '%NAME=value' lines and the entries        *)
(* bibtexparser.dump wrote; result is what load_from_file gave.            *)
(* bibtexparser is a library outside the repository: its writer and its    *)
(* parser are taken to give back the records written, and to read the '%'  *)
(* lines as comments.                                                      *)
(***************************************************************************)
HomeDir == "/home/u"

\* File references of stored entries: a document under the home directory,
\* one outside it, and a bare file name
SamplePaths == {"/home/u/papers/a.pdf", "/data/a.pdf", "a.pdf"}

\* Paths that may exist on the disk
DiskPaths == {"/home/u/papers/a.pdf", "/home/u/a.pdf", "/data/a.pdf"}

\* path.split(sep) of the paths of the model: an absolute path gives an
\* empty first component
split_path(path) ==
    CASE path = "/home/u/papers/a.pdf" -> <<"", "home", "u", "papers", "a.pdf">>
      [] path = "/home/u/a.pdf" -> <<"", "home", "u", "a.pdf">>
      [] path = "/data/a.pdf" -> <<"", "data", "a.pdf">>
      [] path = "/home/u" -> <<"", "home", "u">>
      [] OTHER -> <<path>>

\* os.path.join(new_home, *components), as components: an empty component
\* adds nothing
join_home(new_home, components) ==
    split_path(new_home) \o SelectSeq(components, LAMBDA c : c # "")

\* change_home_dir(path, new_home) with old_home=None: the first of the
\* paths new_home/split_path[i:] that exists; AttributeError when the path
\* holds no separator (re.search gives None), ChangeHomeError when none
\* of the paths exists.
change_home_dir(path, new_home, exists) ==
    LET sp == split_path(path)
        found(i) == {e \in exists : split_path(e) = join_home(new_home, SubSeq(sp, i, Len(sp)))}
        hits == {i \in 1..Len(sp) : found(i) # {}}
    IN  IF Len(sp) < 2 THEN [err |-> "AttributeError", path |-> path]
        ELSE IF hits = {} THEN [err |-> "ChangeHomeError", path |-> path]
        ELSE [err |-> "none",
              path |-> CHOOSE e \in found(CHOOSE i \in hits : \A j \in hits : i <= j) : TRUE]

\* save_to_file(bib_file, **parse_settings): the lines '%key=value', an
\* empty line, then bibtexparser.dump(self, bib_obj)
save_to_file(es, parse_settings) ==
    [directives |-> parse_settings, bibtex |-> es]

\* The loop of load_from_file over bibdat.entries from entry i on
RECURSIVE update_home_from(_, _, _, _)
update_home_from(es, i, home_dir, exists) ==
    IF i > Len(es) THEN [err |-> "none", entries |-> es]
    ELSE IF es[i].file = Absent THEN update_home_from(es, i + 1, home_dir, exists)
    ELSE LET c == change_home_dir(es[i].file, home_dir, exists)
         IN  IF c.err # "none" THEN [err |-> c.err, entries |-> <<>>]
             ELSE update_home_from([es EXCEPT ![i].file = c.path], i + 1, home_dir, exists)

\* load_from_file(bib_file, update_home): home_dir = Absent is HOME unset.
load_from_file(file, update_home, home_dir, exists) ==
    IF update_home /\ home_dir # Absent
    THEN update_home_from(file.bibtex, 1, home_dir, exists)
    ELSE [err |-> "none", entries |-> file.bibtex]

RoundTripStores ==
    UNION { {[i \in 1..n |-> StoredRecord(i, fs[i], Absent)] :
                fs \in [1..n -> SamplePaths \cup {Absent}]} : n \in 0..MaxEntries }

NotSaved == [directives |-> <<>>, bibtex |-> <<>>, saved |-> FALSE]
NotLoaded == [err |-> "none", entries |-> <<>>, loaded |-> FALSE]

InitRoundTrip ==
    /\ entries \in RoundTripStores
    /\ doc = NotSaved
    /\ result = NotLoaded
    /\ prev = NoOp
    /\ last = NoOp
    /\ mg = NoMerge
    /\ batch = NoBatch

SaveToFile ==
    /\ ~doc.saved
    /\ \E parse_settings \in {<<>>, << <<"BIBBUILDER_NO_DUP", "False">> >>} :
          \E f \in {save_to_file(entries, parse_settings)} :
              doc' = [directives |-> f.directives, bibtex |-> f.bibtex, saved |-> TRUE]
    /\ UNCHANGED <<entries, prev, last, result, mg, batch>>

LoadFromFile ==
    /\ doc.saved
    /\ ~result.loaded
    /\ \E update_home \in BOOLEAN, home_dir \in {Absent, HomeDir}, exists \in SUBSET DiskPaths :
          \E r \in {load_from_file(doc, update_home, home_dir, exists)} :
              result' = [err |-> r.err, entries |-> r.entries, loaded |-> TRUE]
    /\ UNCHANGED <<entries, prev, last, doc, mg, batch>>

NextRoundTrip ==
    \/ SaveToFile
    \/ LoadFromFile

SpecRoundTrip == InitRoundTrip /\ [][NextRoundTrip]_vars

\* C15: for every store S, saving S with save_to_file (with any '%NAME=value'
\* lines at the top) and loading the file with load_from_file yields a store
\* with the same entries as S.  load_from_file rewrites every file field
\* through change_home_dir when HOME is set, which raises when the path is
\* not found under HOME and may give another path, so the statement fails.
C15_RoundTrip ==
    result.loaded => (result.err = "none" /\ result.entries = entries)

(***************************************************************************)
(* SpecJournal: abbreviate_journal on journal names.  A name is a sequence *)
(* of pieces of text, none of which holds "The" inside it; doc.name is the *)
(* name given and result the string returned.                              *)
(***************************************************************************)
NamePieces ==
    {"The", " ", "Journal of Chemical Physics", "journal of chemical physics",
     "Lancet", "oretical Chemistry"}

\* The entries of abbrev_dict the names of the model can meet
abbrev_dict ==
    [k \in {"Journal of Chemical Physics", "Nature"} |->
        IF k = "Nature" THEN "Nature" ELSE "J. Chem. Phys"]

\* re.sub('The\s?', '', journal_name): every "The" goes, with the one
\* whitespace character after it when there is one
RECURSIVE re_sub_The(_)
re_sub_The(name) ==
    IF name = <<>> THEN <<>>
    ELSE IF Head(name) = "The"
    THEN IF Len(name) >= 2 /\ name[2] = " "
         THEN re_sub_The(SubSeq(name, 3, Len(name)))
         ELSE re_sub_The(Tail(name))
    ELSE <<Head(name)>> \o re_sub_The(Tail(name))

\* abbreviate_journal
abbreviate_journal(journal_name) ==
    LET name == Join(re_sub_The(journal_name))
    IN  IF name \in DOMAIN abbrev_dict THEN abbrev_dict[name] ELSE name

InitJournal ==
    /\ doc \in [name : SeqsUpTo(NamePieces, MaxName)]
    /\ result = Absent
    /\ entries = <<>>
    /\ prev = NoOp
    /\ last = NoOp
    /\ mg = NoMerge
    /\ batch = NoBatch

ApplyAbbreviate ==
    /\ result = Absent
    /\ result' = abbreviate_journal(doc.name)
    /\ UNCHANGED <<entries, prev, last, doc, mg, batch>>

NextJournal == ApplyAbbreviate

SpecJournal == InitJournal /\ [][NextJournal]_vars

\* A piece of text with its letters in the case the table uses
FoldCase(piece) ==
    IF piece = "journal of chemical physics" THEN "Journal of Chemical Physics" ELSE piece

\* The name without a leading "The "
WithoutLeadingThe(name) ==
    IF Len(name) >= 2 /\ name[1] = "The" /\ name[2] = " "
    THEN SubSeq(name, 3, Len(name)) ELSE name

\* C16: abbreviate_journal strips only a leading "The " from the name,
\* looks the remainder up in the table insensitively to case, returns the
\* table's abbreviation when an entry exists ("The Journal of Chemical
\* Physics" gives "J. Chem. Phys") and returns the original name unchanged
\* when none exists.  The code removes every "The", compares with the case
\* as given and returns the stripped name, so the statement fails.
C16_Abbreviation ==
    result # Absent =>
        LET rest == WithoutLeadingThe(doc.name)
            key == Join([i \in 1..Len(rest) |-> FoldCase(rest[i])])
        IN  result = IF key \in DOMAIN abbrev_dict THEN abbrev_dict[key] ELSE Join(doc.name)
(***************************************************************************)
(* SpecPages: the pages field of a record through format_entry and then    *)
(* through the citation formatter of the web page.  A pages field is a     *)
(* sequence of pieces: the page numbers "100" and "110", the hyphen-minus  *)
(* and the blank.                                                          *)
(***************************************************************************)
Hyphen == "-"
Mdash == "&mdash;"
PagePieces == {"100", "110", Hyphen, Space}

\* \d matches the character of the piece next to the hyphens
IsDigits(piece) == piece \in {"100", "110"}

\* str.strip() of a piece sequence
RECURSIVE lstrip(_)
lstrip(s) == IF s # <<>> /\ Head(s) = Space THEN lstrip(Tail(s)) ELSE s
RECURSIVE rstrip(_)
rstrip(s) ==
    IF s # <<>> /\ s[Len(s)] = Space THEN rstrip(SubSeq(s, 1, Len(s) - 1)) ELSE s
strip(s) == rstrip(lstrip(s))

\* page_double_hyphen, as format_entry calls it: when the field holds a
\* hyphen, the stripped text before the first hyphen and the stripped text
\* after the last one, joined by two hyphens
page_double_hyphen(pages) ==
    LET at == {i \in 1..Len(pages) : pages[i] = Hyphen}
    IN  IF at = {} THEN pages
        ELSE LET first == CHOOSE i \in at : \A j \in at : i <= j
                 final == CHOOSE i \in at : \A j \in at : j <= i
             IN  strip(SubSeq(pages, 1, first - 1)) \o <<Hyphen, Hyphen>>
                    \o strip(SubSeq(pages, final + 1, Len(pages)))

\* format_entry without the call of page_double_hyphen
format_entry_pages_as_given(pages) == pages

\* format_entry on the pages field.  sanitize_html_strings rewrites the
\* subscript markers and "%2F", utf8tolatex(non_ascii_only=True) the
\* characters above 127: a field of page numbers, hyphens and blanks holds
\* none of them, so page_double_hyphen is the one step that changes it.
format_entry_pages(pages) == page_double_hyphen(pages)

\* EntryFormatter._format_pages: re.sub('(?<=\d)--(?=\d)', '&mdash;', pages)
RECURSIVE format_pages_from(_, _)
format_pages_from(pages, i) ==
    IF i > Len(pages) THEN <<>>
    ELSE IF /\ i > 1 /\ i + 2 <= Len(pages)
            /\ pages[i] = Hyphen /\ pages[i + 1] = Hyphen
            /\ IsDigits(pages[i - 1]) /\ IsDigits(pages[i + 2])
         THEN <<Mdash>> \o format_pages_from(pages, i + 2)
         ELSE <<pages[i]>> \o format_pages_from(pages, i + 1)

_format_pages(pages) == format_pages_from(pages, 1)

InitPages ==
    /\ doc \in [pages : SeqsUpTo(PagePieces, MaxPages)]
    /\ result = [stage |-> "raw", pages |-> doc.pages, src |-> doc.pages]
    /\ entries = <<>>
    /\ prev = NoOp
    /\ last = NoOp
    /\ mg = NoMerge
    /\ batch = NoBatch

\* format_entry, when the record enters the store
FormatEntry ==
    /\ result.stage = "raw"
    /\ result' = [stage |-> "normalized", pages |-> format_entry_pages(result.pages),
                  src |-> result.pages]
    /\ UNCHANGED <<entries, prev, last, doc, mg, batch>>

\* EntryFormatter._preprocess_entry on a record of the .bib file, which
\* holds the pages as format_entry left them or as they were written by hand
FormatPages ==
    /\ result.stage \in {"raw", "normalized"}
    /\ result' = [stage |-> "rendered", pages |-> _format_pages(result.pages),
                  src |-> result.pages]
    /\ UNCHANGED <<entries, prev, last, doc, mg, batch>>

NextPages == FormatEntry \/ FormatPages

SpecPages == InitPages /\ [][NextPages]_vars

\* A double hyphen between two page numbers at piece i
DoubleHyphenAt(pages, i) ==
    /\ i > 1 /\ i + 2 <= Len(pages)
    /\ pages[i] = Hyphen /\ pages[i + 1] = Hyphen
    /\ IsDigits(pages[i - 1]) /\ IsDigits(pages[i + 2])

HasDoubleHyphen(pages) == \E i \in 1..Len(pages) : DoubleHyphenAt(pages, i)

\* C17 as stated: format_entry rewrites a page range written with a double
\* hyphen into a single typographic dash, so that "100--110" normalizes to
\* "100&mdash;110" or an equivalent single-dash form: no double hyphen
\* between page numbers is left in the normalized field.
C17_NormalizedToSingleDash ==
    result.stage = "normalized" => ~HasDoubleHyphen(result.pages)

\* C17 amended: format_entry makes a pages field that holds a hyphen use
\* one double hyphen ("100-110" and "100--110" both give "100--110") and
\* never writes "&mdash;"; it is the citation formatter of the web page
\* (_format_pages) that rewrites every double hyphen between page numbers
\* into "&mdash;", so that "100--110" renders as "100&mdash;110".
C17_DoubleHyphenThenMdash ==
    /\ result.stage = "normalized" =>
          /\ Mdash \notin Range(result.pages)
          /\ Hyphen \in Range(result.src) =>
                /\ Cardinality({i \in 1..Len(result.pages) : result.pages[i] = Hyphen}) = 2
                /\ \E i \in 1..(Len(result.pages) - 1) :
                      result.pages[i] = Hyphen /\ result.pages[i + 1] = Hyphen
          /\ result.src \in {<<"100", Hyphen, "110">>, <<"100", Hyphen, Hyphen, "110">>} =>
                result.pages = <<"100", Hyphen, Hyphen, "110">>
          /\ Hyphen \notin Range(result.src) => result.pages = result.src
    /\ result.stage = "rendered" =>
          /\ ~HasDoubleHyphen(result.pages)
          /\ Len(result.pages) =
                Len(result.src) - Cardinality({i \in 1..Len(result.src) : DoubleHyphenAt(result.src, i)})
          /\ result.src = <<"100", Hyphen, Hyphen, "110">> =>
                result.pages = <<"100", Mdash, "110">>

\* A single-hyphen range was normalized to the double hyphen and then
\* rendered with the dash
C17_Witness ==
    /\ result.stage = "rendered"
    /\ doc.pages = <<"100", Hyphen, "110">>
    /\ result.src = <<"100", Hyphen, Hyphen, "110">>
    /\ result.pages = <<"100", Mdash, "110">>
(***************************************************************************)
(* SpecGrl: grl_re alone, as the loop of pdf2bib applies it, on every page *)
(* text of up to MaxText + 1 tokens (the header, the DOI prefix, one piece *)
(* of suffix, a blank and "KeyPoint" are five).                            *)
(***************************************************************************)
GrlTokens == {GRLHeader, DoiPrefix, "a", ".", Space, KeyPoint}
GrlTexts == SeqsUpTo(GrlTokens, MaxText + 1)

\* grl_re, the fifth expression of all_doi_res
grl_re == all_doi_res[5]

InitGrl ==
    /\ doc \in [text : GrlTexts]
    /\ result = [applied |-> FALSE, matched |-> FALSE, doi |-> ""]
    /\ entries = <<>>
    /\ prev = NoOp
    /\ last = NoOp
    /\ mg = NoMerge
    /\ batch = NoBatch

\* doi_match = grl_re.search(pdf_text) and the doi_string of the match
ApplyGrl ==
    /\ ~result.applied
    /\ \E doi_match \in {search(grl_re, doc.text)} :
          result' = [applied |-> TRUE, matched |-> doi_match # <<>>,
                     doi |-> doi_string(doi_match)]
    /\ UNCHANGED <<entries, prev, last, doc, mg, batch>>

NextGrl == ApplyGrl

SpecGrl == InitGrl /\ [][NextGrl]_vars

\* C18 as stated: on a text of the form "...RESEARCHLETTER\n<identifier>
\* KeyPoint...", with a line break before the identifier and a blank
\* between the identifier and "KeyPoint", grl_re matches and yields exactly
\* the identifier.
C18_GrlBlankBeforeKeyPoint ==
    (result.applied /\ doc.text = <<GRLHeader, DoiPrefix, "a", Space, KeyPoint>>) =>
        (result.matched /\ result.doi = "10.1/a")

\* The identifier that starts at token s ends at token e: the whole header
\* stands right before it, its suffix is the shortest non-empty run without
\* whitespace that "KeyPoint" follows directly.
GrlSite(text, s, e) ==
    /\ s > 1 /\ text[s - 1] = GRLHeader /\ text[s] = DoiPrefix
    /\ e > s /\ e < Len(text) /\ text[e + 1] = KeyPoint
    /\ \A k \in (s + 1)..e : text[k] \notin {Space, GRLHeader}
    /\ \A k \in (s + 1)..(e - 1) : text[k + 1] # KeyPoint

\* C18 amended: grl_re matches exactly the texts in which the header
\* "GeophysicalResearchLetters\nRESEARCHLETTER\n" stands right before an
\* identifier that "KeyPoint" follows with nothing in between, and it
\* yields exactly the first such identifier; with a blank between the
\* identifier and "KeyPoint" it does not match.
C18_GrlKeyPointAdjacent ==
    result.applied =>
        LET sites == {p \in (1..Len(doc.text)) \X (1..Len(doc.text)) :
                         GrlSite(doc.text, p[1], p[2])}
        IN  /\ result.matched <=> sites # {}
            /\ \A p \in sites :
                  (\A q \in sites : p[1] <= q[1]) =>
                      result.doi = Join(SubSeq(doc.text, p[1], p[2]))
            /\ doc.text = <<GRLHeader, DoiPrefix, "a", Space, KeyPoint>> => ~result.matched

\* The header, an identifier and "KeyPoint" right after it: the identifier
\* is what grl_re yields
C18_Witness ==
    /\ result.applied
    /\ doc.text = <<GRLHeader, DoiPrefix, "a", KeyPoint>>
    /\ result.matched
    /\ result.doi = "10.1/a"
\* The key the inner loop of merge_bib_files handles next
NextMergeKey == Head(mg.keys)

\* The next key is in the base store with a record that differs from the
\* one of the auxiliary store
ConflictAhead ==
    /\ mg.pc = "keys"
    /\ HasKey(entries, NextMergeKey)
    /\ GetItem(entries, NextMergeKey) # GetItem(mg.new, NextMergeKey)

\* The next key is one the cleanup removes without asking
RemovedSilently ==
    NextMergeKey \in DOMAIN mg.env.excluded_keys /\ ~mg.env.exclude_interactive

\* C19: in merge_bib_files, for a key of the base store whose auxiliary
\* record differs, the conflict policy is invoked if and only if the key is
\* not in the exclusion map or the removal is interactive; a conflict on an
\* excluded key in a non-interactive merge does not abort under any policy
\* ('error' included) and leaves the base store as it was.
C19_ExcludedConflictSkipped ==
    [][ConflictAhead =>
          /\ (mg'.conflicts = mg.conflicts + 1) <=> ~RemovedSilently
          /\ (mg'.conflicts = mg.conflicts) <=> RemovedSilently
          /\ RemovedSilently => (entries' = entries /\ mg'.exit = 0 /\ mg'.pc # "exit")]_vars

\* Under the policy 'error', a conflict on an excluded key of the base
\* store was passed over in a non-interactive merge, which goes on
C19_Witness ==
    /\ mg.pc \in {"keys", "load"}
    /\ mg.n >= 1
    /\ mg.exit = 0
    /\ mg.conflicts = 0
    /\ mg.env.conflict_behavior = "error"
    /\ ~mg.env.exclude_interactive
    /\ \E k \in DOMAIN mg.env.excluded_keys :
          /\ HasKey(mg.env.base0, k) /\ HasKey(mg.new, k)
          /\ k \notin Range(mg.keys)
          /\ GetItem(entries, k) = GetItem(mg.env.base0, k)
          /\ GetItem(entries, k) # GetItem(mg.new, k)

\* C20: a key of the auxiliary store that is absent from the base store
\* has its auxiliary record appended at the end of the base store, also
\* when the key is in the exclusion map, and the records already in the
\* base store keep their content and order; no policy is invoked.  A key
\* of the exclusion map leaves the base store only in the cleanup step.
C20_AbsentKeyAppended ==
    [][/\ (mg.pc = "keys" /\ ~HasKey(entries, NextMergeKey)) =>
             /\ entries' = Append(entries, GetItem(mg.new, NextMergeKey))
             /\ mg'.conflicts = mg.conflicts
             /\ mg'.exit = 0
       /\ (\E k \in DOMAIN mg.env.excluded_keys :
               k \in Range(ids(entries)) /\ k \notin Range(ids(entries'))) =>
             mg.pc = "cleanup"]_vars

\* The record of an excluded key that the base store did not hold was
\* appended, and the cleanup has not started
C20_Witness ==
    /\ mg.pc \in {"keys", "load"}
    /\ mg.n >= 1
    /\ Len(entries) = Len(mg.env.base0) + 1
    /\ \E k \in DOMAIN mg.env.excluded_keys :
          /\ ~HasKey(mg.env.base0, k)
          /\ HasKey(mg.new, k)
          /\ entries[Len(entries)] = GetItem(mg.new, k)
(***************************************************************************)
(* SpecKeyed: the three operations that take a key, on every store that    *)
(* add_entry can have built from the valid records of NewEntries.          *)
(***************************************************************************)
ValidEntries == {e \in NewEntries : e.ID # Absent /\ e.ENTRYTYPE # Absent}

InitKeyed ==
    /\ entries \in SeqsUpTo(ValidEntries, MaxEntries)
    /\ prev = NoOp
    /\ last = NoOp
    /\ doc = NoDoc
    /\ result = Absent
    /\ mg = NoMerge
    /\ batch = NoBatch

NextKeyed ==
    \/ ReplaceEntryByKey
    \/ RemoveEntryByKey
    \/ GetEntry

SpecKeyed == InitKeyed /\ [][NextKeyed]_vars
\* The step is a pass of remove_excluded_bib_keys in which the user chose
\* 'Change entry key': the base store keeps its length and changes
CleanupRename ==
    /\ mg.pc = "cleanup"
    /\ Len(entries') = Len(entries)
    /\ entries' # entries

\* The keys of the auxiliary stores merged so far (of the first one as
\* loaded, of the last one as the merge left it)
AuxKeys == Range(ids(mg.aux1)) \cup Range(ids(mg.new))

\* What C21 says of a rename in the cleanup: one entry of the excluded key
\* at hand gets a key that is new to the base store, to the auxiliary stores
\* and to the exclusion map, and nothing else changes
C21_RenameStep ==
    CleanupRename =>
        \E i \in 1..Len(entries) :
            /\ entries[i].ID = Head(mg.keys)
            /\ entries[i].ID \in DOMAIN mg.env.excluded_keys
            /\ entries' = [entries EXCEPT ![i].ID = entries'[i].ID]
            /\ entries'[i].ID \notin Range(ids(entries))
            /\ entries'[i].ID \notin DOMAIN mg.env.excluded_keys
            /\ mg.n <= 2 => entries'[i].ID \notin AuxKeys

\* C21: in the interactive cleanup, a rename of an excluded entry is
\* accepted only with a key that differs from every key of the base store,
\* from every key of the auxiliary stores that were merged and from every
\* key of the exclusion map; after the interactive cleanup pass no key of
\* the base store is in the exclusion map.
C21_CleanupRenameIsFresh ==
    /\ [][C21_RenameStep]_vars
    /\ [] ((mg.pc = "saved" /\ mg.env.exclude_interactive) =>
              Range(ids(entries)) \cap DOMAIN mg.env.excluded_keys = {})

\* C21 happens: in an interactive run an excluded key of the base store was
\* renamed, and the store was saved with the entry under its new key
C21_Witness ==
    /\ mg.pc = "saved"
    /\ mg.env.exclude_interactive
    /\ mg.n >= 1
    /\ Len(entries) = Len(mg.env.base0)
    /\ \E i \in 1..Len(entries) :
          /\ mg.env.base0[i].ID \in DOMAIN mg.env.excluded_keys
          /\ entries[i] = [mg.env.base0[i] EXCEPT !.ID = "N1"]
\* The step resolves the conflict ahead by keeping both records: it is the
\* one way in which a conflict makes the base store longer
KeepBoth ==
    /\ ConflictAhead
    /\ Len(entries') = Len(entries) + 1

\* C22: when a conflict on key K is resolved by keeping both records, the
\* incoming record gets a new key that is no key of the base store and no
\* key of the auxiliary store being merged, and is appended to the base
\* store; afterwards the base store still holds its own record under K,
\* holds the content of the incoming record under the new key, and its keys
\* are pairwise distinct when they were so before.
C22_KeepBothRenamesIncoming ==
    [][KeepBoth =>
          LET K == NextMergeKey
              added == entries'[Len(entries')]
          IN  /\ added.ID \notin Range(ids(entries))
              /\ added.ID \notin Range(ids(mg.new))
              /\ added = [GetItem(mg.new, K) EXCEPT !.ID = added.ID]
              /\ SubSeq(entries', 1, Len(entries)) = entries
              /\ GetItem(entries', K) = GetItem(entries, K)
              /\ GetItem(entries', added.ID) = added
              /\ GetItem(mg'.new, added.ID) = added
              /\ ~HasKey(mg'.new, K)
              /\ Distinct(entries) => Distinct(entries')]_vars

\* C22 happens: a conflict on a key of a base store of two distinct keys
\* was resolved by keeping both, the incoming record under the key "N1"
C22_Witness ==
    /\ mg.pc \in {"keys", "load"}
    /\ mg.n = 1
    /\ mg.conflicts = 1
    /\ mg.env.conflict_behavior = "ask"
    /\ Len(mg.env.base0) = 2
    /\ Distinct(entries)
    /\ SubSeq(entries, 1, 2) = mg.env.base0
    /\ Len(entries) = 3
    /\ entries[3].ID = "N1"
    /\ \E i \in 1..Len(mg.aux1) :
          /\ HasKey(mg.env.base0, mg.aux1[i].ID)
          /\ entries[3] = [mg.aux1[i] EXCEPT !.ID = "N1"]
(***************************************************************************)
(* SpecKeyChars: format_id on the characters of the raw key, the string    *)
(* '{}{}{}'.format(last, first initial, year[-2:]).  A character is an     *)
(* ASCII letter ("S", "e"), a digit, the hyphen, the underscore, the       *)
(* backslash, a brace, a full stop, a letter with an accent or a sign      *)
(* above 127 that has no decomposition.                                    *)
(***************************************************************************)
Backslash == "\\"
Underscore == "_"
OpenBrace == "{"
CloseBrace == "}"
EAcute == "<U+00E9>"
AsciiLetters == {"S", "e"}
Digits == {"2"}
KeyChars ==
    AsciiLetters \cup Digits
        \cup {Hyphen, Underscore, Backslash, OpenBrace, CloseBrace, ".", EAcute, CopyrightSign}

\* ''.join(c for c in unicodedata.normalize('NFD', record_id)
\*         if unicodedata.category(c) != 'Mn'): the accent goes, the letter stays
strip_accents(id) == [i \in 1..Len(id) |-> IF id[i] = EAcute THEN "e" ELSE id[i]]

\* record_id.encode('ascii', 'ignore').decode('ascii')
RECURSIVE ascii_ignore(_)
ascii_ignore(id) ==
    IF id = <<>> THEN <<>>
    ELSE IF Head(id) \in {EAcute, CopyrightSign} THEN ascii_ignore(Tail(id))
    ELSE <<Head(id)>> \o ascii_ignore(Tail(id))

\* The rest of id after its leading letters
RECURSIVE after_letters(_)
after_letters(id) ==
    IF id # <<>> /\ Head(id) \in AsciiLetters THEN after_letters(Tail(id)) ELSE id

\* re.sub('\\\\[a-zA-Z]+', '', record_id)
RECURSIVE sub_commands(_)
sub_commands(id) ==
    IF id = <<>> THEN <<>>
    ELSE IF Head(id) = Backslash /\ Len(id) >= 2 /\ id[2] \in AsciiLetters
    THEN sub_commands(after_letters(Tail(id)))
    ELSE <<Head(id)>> \o sub_commands(Tail(id))

\* \w on an ASCII string: letters, digits and the underscore
IsWord(c) == c \in AsciiLetters \cup Digits \cup {Underscore}

\* re.sub('[^\w\-]', '', record_id)
RECURSIVE sub_nonword(_)
sub_nonword(id) ==
    IF id = <<>> THEN <<>>
    ELSE IF IsWord(Head(id)) \/ Head(id) = Hyphen
    THEN <<Head(id)>> \o sub_nonword(Tail(id))
    ELSE sub_nonword(Tail(id))

\* format_id from the raw key to the key that is tested against self.ids
clean_record_id(id) == sub_nonword(sub_commands(ascii_ignore(strip_accents(id))))

InitKeyChars ==
    /\ doc \in [raw : SeqsUpTo(KeyChars, MaxKey)]
    /\ result = [applied |-> FALSE, chars |-> <<>>, key |-> ""]
    /\ entries = <<>>
    /\ prev = NoOp
    /\ last = NoOp
    /\ mg = NoMerge
    /\ batch = NoBatch

\* format_id on a store that holds no entry
ApplyCleanId ==
    /\ ~result.applied
    /\ \E id \in {clean_record_id(doc.raw)} :
          result' = [applied |-> TRUE, chars |-> id, key |-> unique_id(Join(id), ids(entries))]
    /\ UNCHANGED <<entries, prev, last, doc, mg, batch>>

NextKeyChars == ApplyCleanId

SpecKeyChars == InitKeyChars /\ [][NextKeyChars]_vars

\* C23: the key format_id produces consists of ASCII letters, digits and
\* hyphens only; markup commands (a backslash followed by letters), groups
\* between braces, underscores and every other character are removed.
C23_KeyCharacterSet ==
    result.applied =>
        /\ \A i \in 1..Len(result.chars) :
              result.chars[i] \in AsciiLetters \cup Digits \cup {Hyphen}
        /\ \A c \in KeyChars \ {OpenBrace, CloseBrace} :
              doc.raw = <<"S", OpenBrace, c, CloseBrace>> => result.chars = <<"S">>
        /\ doc.raw = <<Backslash, "e", "S", "2">> => result.chars = <<"2">>
\* The longest prefix of the match m without a character above 127
LongestAsciiPrefix(m) ==
    LET ns == {n \in 0..Len(m) : \A k \in 1..n : m[k] # CopyrightSign}
    IN  SubSeq(m, 1, CHOOSE n \in ns : \A x \in ns : x <= n)

\* C24: the identifier pdf2bib hands to the resolver is the longest prefix
\* of the matched text that holds no character with a codepoint above 127;
\* a match without such a character is handed on unchanged.
C24_AsciiTruncation ==
    \A i \in 1..Len(last.calls) :
        LET m == search(all_doi_res[last.calls[i].re], doc.text)
        IN  /\ last.calls[i].doi = Join(LongestAsciiPrefix(m))
            /\ CopyrightSign \notin Range(m) => last.calls[i].doi = Join(m)

\* C24 happens: the match ran over a copyright sign and the text after it,
\* and the resolver was asked for the part before the sign
C24_Witness ==
    /\ last.op = "add_entry_by_file"
    /\ doc.text = <<DoiPrefix, "a", CopyrightSign, "a">>
    /\ Len(last.calls) >= 1
    /\ last.calls[1].re = 1
    /\ last.calls[1].doi = "10.1/a"
(***************************************************************************)
(* SpecClobber: the merge driver from its first line.  doc holds whether   *)
(* the output file exists, the options clobber and no_clobber (argparse    *)
(* lets at most one be set) and what the user answers to 'overwrite?' when *)
(* asked; result.pc is "start", "returned" (the driver returned before the *)
(* merge), "merge" (it went on to load the base store), "saved" or "exit", *)
(* result.stopping whether 'Stopping' was printed, result.written whether  *)
(* save_to_file wrote the output file.                                     *)
(***************************************************************************)
ClobberOptions ==
    {o \in [exists : BOOLEAN, clobber : BOOLEAN, no_clobber : BOOLEAN, overwrite : BOOLEAN] :
        ~(o.clobber /\ o.no_clobber)}

\* driver up to the line that loads the base store
output_check(o) ==
    IF o.exists
    THEN IF o.no_clobber THEN [returned |-> TRUE, stopping |-> FALSE]
         ELSE IF ~o.clobber
         THEN [returned |-> FALSE, stopping |-> ~o.overwrite]
         ELSE [returned |-> FALSE, stopping |-> FALSE]
    ELSE [returned |-> FALSE, stopping |-> FALSE]

InitClobber ==
    /\ entries \in MergeStores
    /\ doc \in ClobberOptions
    /\ result = [pc |-> "start", stopping |-> FALSE, written |-> FALSE]
    /\ prev = NoOp
    /\ last = NoOp
    /\ mg = NoMerge
    /\ batch = NoBatch

\* if os.path.isfile(output_file): ...
CheckOutputFile ==
    /\ result.pc = "start"
    /\ \E c \in {output_check(doc)} :
          result' = [pc |-> IF c.returned THEN "returned" ELSE "merge",
                     stopping |-> c.stopping, written |-> FALSE]
    /\ UNCHANGED <<entries, prev, last, doc, mg, batch>>

\* The rest of driver: the merge, the cleanup and save_to_file
MergeAndSave ==
    /\ result.pc = "merge"
    /\ \E new \in SampleAux, exclude \in ExcludeLists, conflict_mode \in {"first", "last", "error"} :
          \E r \in {driver(entries, <<new>>, exclude, conflict_mode, FALSE, <<>>)} :
              /\ ~r.stuck
              /\ entries' = r.base
              /\ result' = [result EXCEPT !.pc = IF r.saved THEN "saved" ELSE "exit",
                                          !.written = r.saved]
    /\ UNCHANGED <<prev, last, doc, mg, batch>>

NextClobber == CheckOutputFile \/ MergeAndSave

SpecClobber == InitClobber /\ [][NextClobber]_vars

\* The output file exists and is not to be overwritten
KeepOutputFile == doc.exists /\ (doc.no_clobber \/ (~doc.clobber /\ ~doc.overwrite))

\* C25: when the output file exists and no_clobber is set or the user
\* answers no to the prompt, the driver stops without merging and the file
\* is never written; the output file is written only when it did not
\* exist, clobber is set or the user confirmed.
C25_OverwriteProtection ==
    /\ KeepOutputFile => (result.pc \in {"start", "returned"} /\ ~result.written)
    /\ result.written => (~doc.exists \/ doc.clobber \/ doc.overwrite)
(***************************************************************************)
(* SpecInsert: insert_bib, one line of the HTML file at a time.  A line is *)
(* a start marker line (its stripped text starts with bib_start), an end   *)
(* marker line or another line.  result.out is what was written to the new *)
(* file: the number of an input line, or 0 for the rendered bibliography.  *)
(***************************************************************************)
bib_start == "<!--START BIB-->"
bib_end == "<!--END BIB-->"
LineKinds == {bib_start, bib_end, "<p>text</p>"}
Bibliography == 0

InitInsert ==
    /\ doc \in [lines : SeqsUpTo(LineKinds, MaxLines)]
    /\ result = [pos |-> 0, in_bib |-> FALSE, out |-> <<>>]
    /\ entries = <<>>
    /\ prev = NoOp
    /\ last = NoOp
    /\ mg = NoMerge
    /\ batch = NoBatch

\* The body of "for line in html_obj" for the line at position pos
insert_bib_line(st, lines, pos) ==
    LET line == lines[pos]
        copied == IF ~st.in_bib THEN Append(st.out, pos) ELSE st.out
    IN  IF line = bib_start
        THEN [pos |-> pos, in_bib |-> TRUE, out |-> Append(copied, Bibliography)]
        ELSE IF line = bib_end
        THEN [pos |-> pos, in_bib |-> FALSE, out |-> Append(copied, pos)]
        ELSE [pos |-> pos, in_bib |-> st.in_bib, out |-> copied]

ReadLine ==
    /\ result.pos < Len(doc.lines)
    /\ result' = insert_bib_line(result, doc.lines, result.pos + 1)
    /\ UNCHANGED <<entries, prev, last, doc, mg, batch>>

NextInsert == ReadLine

SpecInsert == InitInsert /\ [][NextInsert]_vars

\* Line i lies strictly between a start marker line and the end marker
\* line that follows it
InsideRegion(lines, i) ==
    \E s \in 1..(i - 1) :
        lines[s] = bib_start /\ \A k \in (s + 1)..i : lines[k] # bib_end

\* The positions of out that hold the input line i
WrittenAt(out, i) == {p \in 1..Len(out) : out[p] = i}

\* C26: insert_bib writes every input line outside the region between a
\* start marker line and the following end marker line exactly once and in
\* order, the marker lines included, writes no line that lies strictly
\* between them, and writes the rendered bibliography once for each start
\* marker line, directly after the line of a start marker that opens a
\* region.
C26_InsertIntoRegion ==
    result.pos = Len(doc.lines) =>
        LET lines == doc.lines
            out == result.out
        IN  /\ \A i \in 1..Len(lines) :
                  Cardinality(WrittenAt(out, i)) = IF InsideRegion(lines, i) THEN 0 ELSE 1
            /\ \A p, q \in 1..Len(out) :
                  (p < q /\ out[p] # Bibliography /\ out[q] # Bibliography) => out[p] <= out[q]
            /\ Cardinality(WrittenAt(out, Bibliography))
                  = Cardinality({i \in 1..Len(lines) : lines[i] = bib_start})
            /\ \A i \in 1..Len(lines) :
                  (lines[i] = bib_start /\ ~InsideRegion(lines, i)) =>
                      \E p \in 1..(Len(out) - 1) : out[p] = i /\ out[p + 1] = Bibliography

====
